---- MODULE Spec2Model ----
(***************************************************************************)
(* Verification model of tabulon: the GraphicsBag arena (items, paint      *)
(* palette, transform table with cached world transforms), the DXF loader  *)
(* (style resolver, block resolution loop, insert arrays, splines) and the *)
(* viewer's spatial indices for picking and culling.                       *)
(***************************************************************************)
EXTENDS Integers, Sequences, FiniteSets, TLC

VARIABLES
    items,               \* GraphicsBag.items, slot -> item
    final_transforms,    \* GraphicsBag.final_transforms, slot -> Affine
    managed_transforms,  \* GraphicsBag.managed_transforms, slot -> [parent, local]
    palette,             \* GraphicsBag.palette, slot -> FatPaint
    call,                \* the last call made on the bag: operation, arguments, result
    seq_final,           \* world transforms had the last call's updates been made one by one
    drawing,             \* the parsed dxf::Drawing: its entities (and blocks)
    overflow_checks,     \* whether the build panics on integer overflow (debug) or wraps (release)
    load_pc,             \* position of load_file_default_layers
    next_entity,         \* index of the next entity of `for e in drawing.entities()`
    paints,              \* load_file_default_layers::paints, (color, weight) -> PaintHandle
    resolved,            \* every (color, weight, handle) resolve_paint has returned, in order
    blocks,              \* load_file_default_layers::blocks, the resolved blocks' chunks by name
    unresolved_blocks,   \* the blocks not yet resolved, in the order of drawing.blocks()
    there_is_absolutely_no_hope,  \* the flag of the block resolution loop
    last_pass,           \* the names the last pass over unresolved_blocks put in `blocks`
    render_layer,        \* RenderLayer.indices of the drawing being loaded
    item_entity_map,     \* TDDrawing.item_entity_map, ItemHandle -> EntityHandle
    entity_layer_map,    \* TDDrawing.entity_layer_map, EntityHandle -> layer
    entity_index,        \* the viewer's EntityIndex and TextCullIndex over the loaded drawing
    app                  \* TabulonDxfViewer: the displayed drawing, its view and the redraw protocol

bagVars == <<items, final_transforms, managed_transforms, palette>>
blockVars == <<blocks, unresolved_blocks, there_is_absolutely_no_hope, last_pass>>
sceneVars == <<render_layer, item_entity_map, entity_layer_map>>
loadVars == <<drawing, overflow_checks, load_pc, next_entity, paints, resolved, blockVars,
              sceneVars, entity_index, app>>
loadVarsOfThread == <<drawing, overflow_checks, load_pc, next_entity, paints, resolved,
                      blockVars, sceneVars, entity_index>>
vars == <<items, final_transforms, managed_transforms, palette, call, seq_final,
          drawing, overflow_checks, load_pc, next_entity, paints, resolved,
          blocks, unresolved_blocks, there_is_absolutely_no_hope, last_pass,
          render_layer, item_entity_map, entity_layer_map, entity_index, app>>

\* The viewer before a drawing is loaded: no index is built.
NoIndex ==
    [built |-> FALSE, panic |-> FALSE, lines |-> << >>, boxes |-> << >>,
     entity_mapping |-> << >>, item_mapping |-> << >>, order |-> << >>,
     text_boxes |-> << >>, text_item_mapping |-> << >>]

\* TabulonDxfViewer before a file is shown: no DrawingViewer, no redraw
\* requested. `shown` is what the scene was last projected from.
NoViewer ==
    [some |-> FALSE, td |-> << >>, picking_index |-> NoIndex, view_transform |-> <<0, 0>>,
     view_scale |-> 0, pick |-> 0, primary_pan |-> FALSE, defer_reprojection |-> FALSE]

NoApp ==
    [viewer |-> NoViewer, redraw_requested |-> FALSE, shown |-> NoViewer, events |-> 0,
     crashed |-> FALSE]

----------------------------------------------------------------------------
(* Bounds of the model. *)

\* Largest transform table (root included): a chain of depth 5 needs 6 slots.
MaxTransforms == 6
\* Longest list of pairs handed to update_transforms.
MaxBatch == 2
\* Largest palette and item arena of the bag.
MaxPaints == 2
MaxItems == 2

----------------------------------------------------------------------------
(* kurbo::Affine as the six coefficients [a, b, c, d, e, f]. *)

IDENTITY == <<1, 0, 0, 1, 0, 0>>

\* Affine * Affine: the map that applies `o` first and then `s`.
AffineMul(s, o) ==
    << s[1] * o[1] + s[3] * o[2],
       s[2] * o[1] + s[4] * o[2],
       s[1] * o[3] + s[3] * o[4],
       s[2] * o[3] + s[4] * o[4],
       s[1] * o[5] + s[3] * o[6] + s[5],
       s[2] * o[5] + s[4] * o[6] + s[6] >>

\* Local transforms handed to register/update: a scale, a translation and a
\* quarter turn, which do not commute.
Scale2 == <<2, 0, 0, 2, 0, 0>>
Translate1 == <<1, 0, 0, 1, 1, 0>>
Locals == {Scale2, Translate1}

\* A Vec is a sequence; slot i of the Vec (counted from 0) is element i + 1.
At(v, i) == v[i + 1]
Slots(v) == 0..(Len(v) - 1)

\* usize::from(TransformHandle): the root handle (None) is slot 0.
ROOT == 0

----------------------------------------------------------------------------
(* GraphicsBag transform operations, as functions of the two tables. *)

RECURSIVE FinalizeLoop(_, _, _)
FinalizeLoop(final, managed, i) ==
    IF i >= Len(managed) THEN final
    ELSE LET m == At(managed, i)
             w == IF i = 0 THEN m.local
                  ELSE AffineMul(At(final, m.parent), m.local)
         IN FinalizeLoop([final EXCEPT ![i + 1] = w], managed, i + 1)

finalize_transforms_skip(final, managed, handle) == FinalizeLoop(final, managed, handle + 1)

\* finalize_transforms(handle)
finalize_transforms(final, managed, handle) == FinalizeLoop(final, managed, handle)

\* The local values after storing every pair of a list in order.
RECURSIVE StorePairs(_, _)
StorePairs(managed, pairs) ==
    IF pairs = << >> THEN managed
    ELSE StorePairs([managed EXCEPT ![pairs[1][1] + 1].local = pairs[1][2]], Tail(pairs))

\* `least`: the smallest non-root handle of the list; it starts at the sentinel
\* NonZeroU32::MAX, held here as the largest integer TLC holds (every
\* handle of the model is far below both).
NoLeast == 2147483647
Min2(a, b) == IF a <= b THEN a ELSE b
RECURSIVE Least(_)
Least(pairs) ==
    IF pairs = << >> THEN NoLeast
    ELSE IF pairs[1][1] # ROOT THEN Min2(pairs[1][1], Least(Tail(pairs)))
         ELSE Least(Tail(pairs))

IncludesRoot(pairs) == \E k \in 1..Len(pairs) : pairs[k][1] = ROOT

\* update_transforms(pairs): the world transforms it leaves.
UpdateTransformsFinal(final, managed, pairs) ==
    LET m2 == StorePairs(managed, pairs)
    IN IF Least(pairs) = NoLeast THEN final
       ELSE finalize_transforms(final, m2,
                IF IncludesRoot(pairs) THEN ROOT ELSE Least(pairs))

\* The tables after update_transform(handle, local).
UpdateOne(bag, handle, local) ==
    LET m2 == [bag.managed EXCEPT ![handle + 1].local = local]
    IN [managed |-> m2, final |-> finalize_transforms(bag.final, m2, handle)]

\* The tables after calling update_transform for each pair of a list in order.
RECURSIVE UpdateEach(_, _)
UpdateEach(bag, pairs) ==
    IF pairs = << >> THEN bag
    ELSE UpdateEach(UpdateOne(bag, pairs[1][1], pairs[1][2]), Tail(pairs))

----------------------------------------------------------------------------
(* State after GraphicsBag::default(). *)

\* No file is being loaded.
NoLoad ==
    /\ drawing = [entities |-> << >>, blocks |-> << >>]
    /\ overflow_checks = FALSE
    /\ load_pc = "idle"
    /\ next_entity = 1
    /\ paints = << >>
    /\ resolved = << >>
    /\ blocks = {}
    /\ unresolved_blocks = << >>
    /\ there_is_absolutely_no_hope = FALSE
    /\ last_pass = {}
    /\ render_layer = << >>
    /\ item_entity_map = << >>
    /\ entity_layer_map = << >>
    /\ entity_index = NoIndex
    /\ app = NoApp

InitBag ==
    /\ items = << >>
    /\ final_transforms = << IDENTITY >>
    /\ managed_transforms = << [parent |-> ROOT, local |-> IDENTITY] >>
    /\ palette = << >>
    /\ call = [op |-> "default"]
    /\ seq_final = final_transforms
    /\ NoLoad

register_transform_late(parent, local) ==
    /\ managed_transforms' = Append(managed_transforms, [parent |-> parent, local |-> local])
    /\ final_transforms' = Append(final_transforms, AffineMul(At(final_transforms, parent), local))
    /\ call' = [op |-> "register_transform", parent |-> parent,
                handle |-> Len(managed_transforms')]
    /\ seq_final' = final_transforms'
    /\ UNCHANGED <<items, palette, loadVars>>

\* register_transform(parent, local)
register_transform(parent, local) ==
    /\ managed_transforms' = Append(managed_transforms, [parent |-> parent, local |-> local])
    /\ final_transforms' = Append(final_transforms, AffineMul(At(final_transforms, parent), local))
    /\ call' = [op |-> "register_transform", parent |-> parent,
                handle |-> Len(managed_transforms)]
    /\ seq_final' = final_transforms'
    /\ UNCHANGED <<items, palette, loadVars>>

\* update_transform(handle, local)
update_transform(handle, local) ==
    /\ managed_transforms' = [managed_transforms EXCEPT ![handle + 1].local = local]
    /\ final_transforms' = finalize_transforms(final_transforms, managed_transforms', handle)
    /\ call' = [op |-> "update_transform"]
    /\ seq_final' = final_transforms'
    /\ UNCHANGED <<items, palette, loadVars>>

\* update_transforms(pairs)
update_transforms(pairs) ==
    /\ managed_transforms' = StorePairs(managed_transforms, pairs)
    /\ final_transforms' = UpdateTransformsFinal(final_transforms, managed_transforms, pairs)
    /\ call' = [op |-> "update_transforms", empty |-> pairs = << >>,
                includes_root |-> IncludesRoot(pairs)]
    /\ seq_final' = UpdateEach([managed |-> managed_transforms,
                                 final |-> final_transforms], pairs).final
    /\ UNCHANGED <<items, palette, loadVars>>

\* Handles put in a batch: the root, a slot in the middle of the table and the
\* handle issued last.
BatchHandles == {ROOT, (Len(managed_transforms) - 1) \div 2, Len(managed_transforms) - 1}

\* Lists of at most n (handle, local) pairs; a handle may repeat.
PairLists(n) ==
    UNION {[1..k -> BatchHandles \X Locals] : k \in 0..n}

\* Parents handed to register_transform: the handle issued last (a chain of any
\* depth) or, for the first two registrations, the root (two unrelated
\* siblings under the root, one of which carries the chain).
Parents ==
    IF Len(managed_transforms) <= 2 THEN {ROOT, Len(managed_transforms) - 1}
    ELSE {Len(managed_transforms) - 1}

RegisterTransform ==
    /\ Len(managed_transforms) < MaxTransforms
    /\ \E parent \in Parents, local \in Locals :
          register_transform(parent, local)

UpdateTransform ==
    \E handle \in Slots(managed_transforms), local \in Locals :
          update_transform(handle, local)

UpdateTransforms ==
    \E pairs \in PairLists(MaxBatch) : update_transforms(pairs)

NextTransforms == RegisterTransform \/ UpdateTransform \/ UpdateTransforms

SpecTransforms == InitBag /\ [][NextTransforms]_vars

----------------------------------------------------------------------------
(* f64 stroke widths as exact fractions <<numerator, denominator>> in lowest  *)
(* terms; <<1, 0>> is f64::INFINITY.                                          *)

RECURSIVE Gcd(_, _)
Gcd(a, b) == IF b = 0 THEN a ELSE Gcd(b, a % b)

Frac(n, d) == LET g == Gcd(n, d) IN <<n \div g, d \div g>>
FracDiv(x, y) == Frac(x[1] * y[2], x[2] * y[1])
FracLe(x, y) == x[1] * y[2] <= y[1] * x[2]
INFINITY == <<1, 0>>

\* f64::clamp(self, min, max)
Clamp(x, lo, hi) == IF FracLe(x, lo) THEN lo ELSE IF FracLe(hi, x) THEN hi ELSE x

AdaptWidthUnclamped(weight, pitch, view_scale, min_stroke, max_stroke) ==
    FracDiv(FracDiv(Frac(weight, 1), Frac(pitch, 1)), view_scale)

\* The stroke width RestrokePaint::adapt computes.
AdaptWidth(weight, pitch, view_scale, min_stroke, max_stroke) ==
    LET pxw == Clamp(FracDiv(Frac(weight, 1), Frac(pitch, 1)), min_stroke, max_stroke)
    IN FracDiv(pxw, view_scale)

----------------------------------------------------------------------------
(* GraphicsBag items and paint palette. *)

\* Stroke::default() has width 1.0.
DefaultStroke == <<1, 1>>

\* Option<Brush>: None, or the colour <<r, g, b, a>> of a solid brush.
None == << >>
BLACK == <<0, 0, 0, 255>>
WHITE == <<255, 255, 255, 255>>
RED == <<255, 0, 0, 255>>

\* Paints handed to register_paint and update_paint.
PaintInputs ==
    { [stroke |-> DefaultStroke, stroke_paint |-> BLACK, fill_paint |-> None],
      [stroke |-> DefaultStroke, stroke_paint |-> None, fill_paint |-> RED] }

\* get_paint(handle)
get_paint(handle) == At(palette, handle)

\* push(item)
push(item) ==
    /\ items' = Append(items, item)
    /\ call' = [op |-> "push", handle |-> Len(items)]
    /\ UNCHANGED <<final_transforms, managed_transforms, palette, seq_final, loadVars>>

\* register_paint(paint)
register_paint(paint) ==
    /\ palette' = Append(palette, paint)
    /\ call' = [op |-> "register_paint", handle |-> Len(palette)]
    /\ UNCHANGED <<items, final_transforms, managed_transforms, seq_final, loadVars>>

update_paint_all(handle, paint) ==
    /\ palette' = [i \in 1..Len(palette) |-> paint]
    /\ call' = [op |-> "update_paint", handle |-> handle, paint |-> paint]
    /\ UNCHANGED <<items, final_transforms, managed_transforms, seq_final, loadVars>>

\* update_paint(handle, paint)
update_paint(handle, paint) ==
    /\ palette' = [palette EXCEPT ![handle + 1] = paint]
    /\ call' = [op |-> "update_paint", handle |-> handle, paint |-> paint]
    /\ UNCHANGED <<items, final_transforms, managed_transforms, seq_final, loadVars>>

\* A write of one brush through get_paint_mut(handle), as light_adapt_paints does.
get_paint_mut(handle, brush) ==
    LET p == [get_paint(handle) EXCEPT !.stroke_paint = brush]
    IN /\ palette' = [palette EXCEPT ![handle + 1] = p]
       /\ call' = [op |-> "get_paint_mut", handle |-> handle, paint |-> p]
       /\ UNCHANGED <<items, final_transforms, managed_transforms, seq_final, loadVars>>

\* RestrokePaint { weight, handle }.adapt(graphics, pitch, view_scale, min_stroke, max_stroke)
adapt(weight, handle, pitch, view_scale, min_stroke, max_stroke) ==
    LET p == [get_paint(handle) EXCEPT
                 !.stroke = AdaptWidth(weight, pitch, view_scale, min_stroke, max_stroke)]
    IN /\ palette' = [palette EXCEPT ![handle + 1] = p]
       /\ call' = [op |-> "adapt", handle |-> handle, paint |-> p, weight |-> weight,
                   pitch |-> pitch, view_scale |-> view_scale, min_stroke |-> min_stroke,
                   max_stroke |-> max_stroke]
       /\ UNCHANGED <<items, final_transforms, managed_transforms, seq_final, loadVars>>

\* Inputs of adapt: line weights, pixel pitch, view scales and stroke limits.
Weights == {0, 4}
Pitches == {2}
ViewScales == {<<2, 1>>}
MinStrokes == {<<1, 1>>}
MaxStrokes == {INFINITY}

Push ==
    /\ Len(items) < MaxItems
    /\ \E t \in Slots(managed_transforms), p \in Slots(palette) :
          push([kind |-> "FatShape", transform |-> t, paint |-> p])

RegisterPaint ==
    /\ Len(palette) < MaxPaints
    /\ \E paint \in PaintInputs : register_paint(paint)

UpdatePaint ==
    \E handle \in Slots(palette), paint \in PaintInputs : update_paint(handle, paint)

GetPaintMut ==
    \E handle \in Slots(palette), brush \in {WHITE} : get_paint_mut(handle, brush)

Adapt ==
    \E handle \in Slots(palette), weight \in Weights, pitch \in Pitches,
       view_scale \in ViewScales, min_stroke \in MinStrokes, max_stroke \in MaxStrokes :
          adapt(weight, handle, pitch, view_scale, min_stroke, max_stroke)

NextPaint == Push \/ RegisterPaint \/ UpdatePaint \/ GetPaintMut \/ Adapt

SpecPaint == InitBag /\ [][NextPaint]_vars

\* The calls that write the paint of one handle.
PaintUpdates == {"update_paint", "get_paint_mut", "adapt"}

\* C5: updating the paint at handle h (update_paint, get_paint_mut or adapt)
\* changes what get_paint returns for every item referring to h, and leaves the
\* paint of every other handle, all items and all transforms as they were.
C5_PaintUpdateFrame ==
    [][call'.op \in PaintUpdates =>
          /\ \A i \in 1..Len(items') :
                items'[i].paint = call'.handle => At(palette', items'[i].paint) = call'.paint
          /\ \A h \in Slots(palette) \ {call'.handle} : At(palette', h) = At(palette, h)
          /\ Len(palette') = Len(palette)
          /\ items' = items
          /\ final_transforms' = final_transforms
          /\ managed_transforms' = managed_transforms]_vars

\* Two items share the updated handle, whose paint changed, while another
\* handle keeps a different paint.
C5_Witness ==
    /\ call.op \in PaintUpdates
    /\ Len(items) >= 2
    /\ \A i \in 1..2 : items[i].paint = call.handle
    /\ \E h \in Slots(palette) : h # call.handle /\ get_paint(h) # get_paint(call.handle)

----------------------------------------------------------------------------
(* Transform table properties. *)

local(n) == At(managed_transforms, n).local
parent(n) == At(managed_transforms, n).parent
world(n) == At(final_transforms, n)
NonRoot == Slots(managed_transforms) \ {ROOT}

\* Number of parent links from node n up to the root.
RECURSIVE Depth(_)
Depth(n) == IF n = ROOT THEN 0 ELSE 1 + Depth(parent(n))

\* C1: after any sequence of register_transform, update_transform and
\* update_transforms calls with issued handles, every non-root node n has
\* world(n) = world(parent(n)) * local(n), chains of depth 5 and more included.
C1_WorldIsParentWorldTimesLocal ==
    \A n \in NonRoot : world(n) = AffineMul(world(parent(n)), local(n))

\* A node at depth 5 whose chain was re-derived by a batch update.
C1_Witness ==
    /\ call.op = "update_transforms"
    /\ ~call.empty
    /\ \E n \in NonRoot : Depth(n) >= 5 /\ world(n) # local(n)

\* C2: a non-empty update_transforms whose pairs include the root handle (also
\* when the root is its only handle) finalizes from the root: afterwards
\* world(root) is the root's new local value and every other node is derived
\* from it.
C2_RootBatchFinalizesFromRoot ==
    (call.op = "update_transforms" /\ ~call.empty /\ call.includes_root)
        => /\ world(ROOT) = local(ROOT)
           /\ \A n \in NonRoot : world(n) = AffineMul(world(parent(n)), local(n))

\* C3: applying a list of pairs one by one with update_transform and applying
\* the same list in one update_transforms call leave the same world transform
\* at every node.
C3_BatchEqualsSequential ==
    call.op = "update_transforms" => final_transforms = seq_final

\* C4: register_transform returns the previous table length as the new handle,
\* which is above its parent's slot; every non-root node's parent has a smaller
\* slot than the node.
C4_ParentPrecedesChild ==
    /\ call.op = "register_transform" =>
          /\ call.handle = Len(managed_transforms) - 1
          /\ call.parent < call.handle
          /\ parent(call.handle) = call.parent
    /\ \A n \in NonRoot : parent(n) < n

\* A node registered under a non-root parent.
C4_Witness ==
    /\ call.op = "register_transform"
    /\ call.parent # ROOT
    /\ Len(managed_transforms) = MaxTransforms

----------------------------------------------------------------------------
(* u64 arithmetic of the line weights, on four 16-bit limbs (least           *)
(* significant first).                                                       *)

LimbBase == 65536

\* A small non-negative integer as u64.
U64(n) == <<n % LimbBase, (n \div LimbBase) % LimbBase, 0, 0>>

\* `i as u64` for an i16: negative values are sign-extended.
I16AsU64(i) ==
    IF i >= 0 THEN U64(i)
    ELSE <<LimbBase + i, LimbBase - 1, LimbBase - 1, LimbBase - 1>>

\* x * k on u64: the wrapped product and whether it overflowed.
U64Mul(x, k) ==
    LET p1 == x[1] * k
        p2 == x[2] * k + (p1 \div LimbBase)
        p3 == x[3] * k + (p2 \div LimbBase)
        p4 == x[4] * k + (p3 \div LimbBase)
    IN [val |-> <<p1 % LimbBase, p2 % LimbBase, p3 % LimbBase, p4 % LimbBase>>,
        overflow |-> (p4 \div LimbBase) > 0]

\* x / k on u64: quotient and remainder.
U64DivMod(x, k) ==
    LET r4 == x[4] % k
        n3 == r4 * LimbBase + x[3]
        r3 == n3 % k
        n2 == r3 * LimbBase + x[2]
        r2 == n2 % k
        n1 == r2 * LimbBase + x[1]
    IN [quot |-> <<n1 \div k, n2 \div k, n3 \div k, x[4] \div k>>, rem |-> n1 % k]

\* joto_constants::u64::MICROMETER, in iota (one ninth of a nanometre).
MICROMETER == 9000

----------------------------------------------------------------------------
(* Geometry: points <<x, y>>, kurbo paths and the affine maps of inserts.     *)
(* Coordinates are whole numbers and angles whole quarter turns, which f64   *)
(* holds exactly.                                                            *)

\* point_from_dxf_point: DXF is y-up, the drawing's frame is y-down.
point_from_dxf_point(p) == <<p[1], -p[2]>>

\* A kurbo::PathEl. MoveTo and LineTo hold their point p; the closed run of
\* cubic segments that Circle::to_path gives is held as one element with the
\* centre p and the half axes u and v, which an affine map carries along.
PathEl(op, p, u, v) == [op |-> op, p |-> p, u |-> u, v |-> v]
MoveTo(p) == PathEl("M", p, <<0, 0>>, <<0, 0>>)
LineTo(p) == PathEl("L", p, <<0, 0>>, <<0, 0>>)
CirclePath(center, radius) == PathEl("O", center, <<radius, 0>>, <<0, radius>>)

\* Affine * Point, and the linear part of an Affine on a vector.
AffinePoint(t, p) == <<t[1] * p[1] + t[3] * p[2] + t[5], t[2] * p[1] + t[4] * p[2] + t[6]>>
AffineVec(t, w) == <<t[1] * w[1] + t[3] * w[2], t[2] * w[1] + t[4] * w[2]>>

\* Affine::scale_non_uniform, Affine::then_translate, Affine::rotate and
\* Affine::then_rotate of kurbo; th counts quarter turns.
scale_non_uniform(sx, sy) == <<sx, 0, 0, sy, 0, 0>>
then_translate(t, w) == <<t[1], t[2], t[3], t[4], t[5] + w[1], t[6] + w[2]>>
Cos4(th) == <<1, 0, -1, 0>>[(th % 4) + 1]
Sin4(th) == <<0, 1, 0, -1>>[(th % 4) + 1]
rotate(th) == <<Cos4(th), Sin4(th), -Sin4(th), Cos4(th), 0, 0>>
then_rotate(t, th) == AffineMul(rotate(th), t)

\* The transform of array cell (row i, column j) of an insert nested in a
\* block (lib.rs 681-718); ins.rotation counts quarter turns.
CellTransformNested(ins, i, j) ==
    LET base_transform == scale_non_uniform(ins.x_scale_factor, ins.y_scale_factor)
        location == point_from_dxf_point(ins.location)
    IN then_translate(
           then_rotate(
               then_translate(base_transform,
                              <<j * ins.column_spacing, i * ins.row_spacing>>),
               -ins.rotation),
           location)

CellTransformTopRotatesFirst(ins, i, j) ==
    LET base_transform == scale_non_uniform(ins.x_scale_factor, ins.y_scale_factor)
        location == point_from_dxf_point(ins.location)
    IN then_translate(
           then_translate(
               then_rotate(base_transform, -ins.rotation),
               <<j * ins.column_spacing, i * ins.row_spacing>>),
           location)

\* The transform of array cell (row i, column j) of a top-level insert
\* (lib.rs 906-935).
CellTransformTop(ins, i, j) ==
    LET base_transform == scale_non_uniform(ins.x_scale_factor, ins.y_scale_factor)
        location == point_from_dxf_point(ins.location)
    IN then_translate(
           then_rotate(
               then_translate(base_transform,
                              <<j * ins.column_spacing, i * ins.row_spacing>>),
               -ins.rotation),
           location)

\* Affine * PathEl
AffineEl(t, el) ==
    PathEl(el.op, AffinePoint(t, el.p), AffineVec(t, el.u), AffineVec(t, el.v))

\* Affine * BezPath
AffinePath(t, path) == [k \in 1..Len(path) |-> AffineEl(t, path[k])]

\* The number of cells of `for i in 0..row_count { for j in 0..column_count`.
Cells(ins) ==
    IF ins.row_count <= 0 \/ ins.column_count <= 0 THEN 0
    ELSE ins.row_count * ins.column_count

\* for i in 0..row_count { for j in 0..column_count { lines.extend(transform * clines) } }
\* of a nested insert: element m of the path is element (m mod len) of clines
\* in cell (m div len), the cells counted row by row. The transform and the
\* element are bound through one-element sets, which computes each once.
ArrayNested(ins, clines) ==
    [m \in 1..(Cells(ins) * Len(clines)) |->
        CHOOSE out \in
          { AffineEl(transform, el) :
              transform \in { CellTransformNested(ins, n \div ins.column_count,
                                                  n % ins.column_count) :
                                  n \in {(m - 1) \div Len(clines)} },
              el \in {clines[((m - 1) % Len(clines)) + 1]} } : TRUE]

ArrayTopFirstCell(ins, clines) ==
    [m \in 1..(IF Cells(ins) > 0 THEN Len(clines) ELSE 0) |->
        AffineEl(CellTransformTop(ins, 0, 0), clines[m])]

\* The same loops of a top-level insert.
ArrayTop(ins, clines) ==
    [m \in 1..(Cells(ins) * Len(clines)) |->
        CHOOSE out \in
          { AffineEl(transform, el) :
              transform \in { CellTransformTop(ins, n \div ins.column_count,
                                                  n % ins.column_count) :
                                  n \in {(m - 1) \div Len(clines)} },
              el \in {clines[((m - 1) % Len(clines)) + 1]} } : TRUE]

----------------------------------------------------------------------------
(* Style resolution of load_file_default_layers.                             *)

\* aci_palette::ACI: 256 colours 0xRRGGBB; the first eight are the named
\* colours, the rest are held as grey levels.
ACI(i) ==
    CASE i = 0 -> 0
      [] i = 1 -> 16711680
      [] i = 2 -> 16776960
      [] i = 3 -> 65280
      [] i = 4 -> 65535
      [] i = 5 -> 255
      [] i = 6 -> 16711935
      [] i = 7 -> 16777215
      [] OTHER -> i * 65793

\* The low 24 bits of u32::MAX.
U32MaxLow24 == 16777215
Pow24 == 16777216

\* dxf::Color::index() is Some for the raw colour values 1..=255.
HasIndex(raw) == raw >= 1 /\ raw <= 255

\* ACI[i]: indexing past the table panics.
AciLen == 256
AciAt(i) == [low |-> ACI(i), panic |-> i >= AciLen]
NoPanic(low) == [low |-> low, panic |-> FALSE]

OpaqueColorBlack(c, e, layer) ==
    CASE c = 257 -> NoPanic(e.color_24_bit % Pow24)
      [] c = 256 -> IF HasIndex(layer.color) THEN AciAt(layer.color) ELSE NoPanic(0)
      [] c >= 1 /\ c <= 255 -> AciAt(c)
      [] OTHER -> NoPanic(0)

\* opaque_color: the low 24 bits of the u32 (the shift by 8 drops the rest).
OpaqueColor(c, e, layer) ==
    CASE c = 257 -> NoPanic(e.color_24_bit % Pow24)
      [] c = 256 -> IF HasIndex(layer.color) THEN AciAt(layer.color) ELSE NoPanic(U32MaxLow24)
      [] c >= 1 /\ c <= 255 -> AciAt(c)
      [] OTHER -> NoPanic(U32MaxLow24)

\* combined_color = (opaque_color << 8) | (0xFF - (transparency & 0xFF)), as the
\* bytes <<r, g, b, a>> that lines 869-872 split it into.
CombinedColor(c, e, layer) ==
    LET o == OpaqueColor(c, e, layer).low
    IN <<(o \div 65536) % 256, (o \div 256) % 256, o % 256, 255 - (e.transparency % 256)>>

LWDEFAULT == U64Mul(U64(250), MICROMETER).val

\* i as u64 * 10 * MICROMETER: the wrapped product, and whether the build's
\* overflow checks make it panic.
TenMicrometres(i, checks) ==
    LET m1 == U64Mul(I16AsU64(i), 10)
        m2 == U64Mul(m1.val, MICROMETER)
    IN [val |-> m2.val, panic |-> checks /\ (m1.overflow \/ m2.overflow)]

\* lwconcrete: the weight in iota.
LwConcrete(lw, layer, checks) ==
    CASE lw = -3 -> [val |-> LWDEFAULT, panic |-> FALSE]
      [] lw = -2 ->
            IF layer.line_weight <= 0 THEN [val |-> LWDEFAULT, panic |-> FALSE]
            ELSE TenMicrometres(layer.line_weight, checks)
      [] lw = -1 -> [val |-> LWDEFAULT, panic |-> FALSE]
      [] OTHER -> TenMicrometres(lw, checks)

PaintKeyColorOnly(color, weight) == <<color, LWDEFAULT>>

\* The key of the `paints` map.
PaintKey(color, weight) == <<color, weight>>

\* The layers of the drawing: colour index (or none), line weight, on/off.
LayerNoStyle == [color |-> 0, line_weight |-> -3, is_layer_on |-> TRUE]
LayerRed50 == [color |-> 1, line_weight |-> 50, is_layer_on |-> TRUE]
LayerOff == [color |-> 7, line_weight |-> 0, is_layer_on |-> FALSE]

\* A dxf entity of the drawing. layer_name is e.common.layer and layer the
\* entry of the layer table under that name (read only when the name is in
\* the table); handle is e.common.handle; z_up says that the z of the normal
\* or extrusion direction is 1.0; rotation counts quarter turns; a spline
\* holds the number of its control points and its knot values.
DefaultEntity ==
    [kind |-> "LINE", handle |-> 1, layer_name |-> "L", layer |-> LayerRed50,
     is_visible |-> TRUE, lineweight_enum_value |-> -3, color |-> 256,
     transparency |-> 0, color_24_bit |-> 255, z_up |-> TRUE,
     p1 |-> <<0, 0>>, p2 |-> <<10, 0>>, center |-> <<0, 0>>, radius |-> 1,
     name |-> "", x_scale_factor |-> 1, y_scale_factor |-> 1, rotation |-> 0,
     location |-> <<0, 0>>, row_count |-> 1, column_count |-> 1,
     column_spacing |-> 0, row_spacing |-> 0,
     degree_of_curve |-> 1, control_points |-> 0, knot_values |-> << >>,
     vertices |-> << >>, is_closed |-> FALSE]

Entity(lw, c, layer, visible, transparency, rgb) ==
    [DefaultEntity EXCEPT !.lineweight_enum_value = lw, !.color = c, !.layer = layer,
                          !.is_visible = visible, !.transparency = transparency,
                          !.color_24_bit = rgb]

\* The names of the layer table: every layer a model entity carries in
\* `layer` is listed under the name "L"; no layer has the empty name.
LayerNames == {"L"}
\* handle_for_layer_name[name] panics for a name that is not in the table.
LayerLookupPanics(e) == e.layer_name \notin LayerNames
\* visible_layers.contains(name)
InVisibleLayers(e) == e.layer_name \in LayerNames /\ e.layer.is_layer_on

\* The `blocks` map as a set of [name, chunks] entries.
HasBlock(map, name) == \E r \in map : r.name = name
GetBlock(map, name) == (CHOOSE r \in map : r.name = name).chunks
InsertBlock(map, name, chunks) ==
    {r \in map : r.name # name} \cup {[name |-> name, chunks |-> chunks]}

----------------------------------------------------------------------------
(* path_from_entity.                                                         *)

\* knots.iter().position(|&knot| knot > u).unwrap_or(knots.len() - 1)
\*      .saturating_sub(1), counted from 0.
KnotSpan(knots, u) ==
    LET above == {i \in 1..Len(knots) : knots[i] > u}
        position == IF above = {} THEN Len(knots) - 1
                    ELSE (CHOOSE i \in above : \A j \in above : i <= j) - 1
    IN IF position <= 0 THEN 0 ELSE position - 1

\* eval_spline over ncp control points: whether one of its index expressions
\* is out of bounds. The point it returns is not modelled.
eval_spline(degree, ncp, knots, u) ==
    LET n == ncp - 1
        k == KnotSpan(knots, u)
    IN [panic |->
          IF ncp = 0 \/ knots = << >> THEN TRUE
          ELSE IF k < degree \/ k > n THEN degree >= Len(knots)
          ELSE \E r \in 1..degree : \E i \in r..degree :
                  \/ k - degree + i >= Len(knots)
                  \/ k - degree + i + degree - r + 1 >= Len(knots)]

\* derivative_control_points: the degree, the number of control points and
\* the knots of the derivative, and whether an index is out of bounds.
derivative_control_points(degree, ncp, knots) ==
    LET n == ncp - 1
    IN IF ncp = 0 THEN [degree |-> 0, ncp |-> 0, knots |-> knots, panic |-> TRUE]
       ELSE IF degree = 0 \/ n < 1
       THEN [degree |-> 0, ncp |-> 0, knots |-> knots, panic |-> FALSE]
       ELSE [degree |-> degree - 1, ncp |-> n,
             knots |-> SubSeq(knots, 2, Len(knots) - 1),
             panic |-> Len(knots) < 2 \/ (n - 1) + degree + 1 >= Len(knots)]

\* The values of a set of numbers in rising order.
RECURSIVE Sorted(_)
Sorted(S) ==
    IF S = {} THEN << >>
    ELSE LET least == CHOOSE x \in S : \A y \in S : x <= y
         IN << least >> \o Sorted(S \ {least})

\* One element per span of a spline; its control points are not modelled.
SpanEl == PathEl("S", <<0, 0>>, <<0, 0>>, <<0, 0>>)

\* The body of `for w in unique_knots.windows(2)`: whether it panics.
SplineSpan(degree, ncp, knots, u0, u1) ==
    CASE degree = 1 -> eval_spline(degree, ncp, knots, u1).panic
      [] degree \in {2, 3} ->
            LET d == derivative_control_points(degree, ncp, knots)
            IN \/ eval_spline(degree, ncp, knots, u1).panic
               \/ d.panic
               \/ eval_spline(d.degree, d.ncp, d.knots, u0).panic
               \/ eval_spline(d.degree, d.ncp, d.knots, u1).panic
      [] OTHER -> TRUE   \* unreachable!()

NoPath == [some |-> FALSE, path |-> << >>, panic |-> FALSE]
SomePath(path) == [some |-> TRUE, path |-> path, panic |-> FALSE]
PathPanic == [some |-> FALSE, path |-> << >>, panic |-> TRUE]

\* path_from_entity for EntityType::Spline. `as usize` turns a negative
\* degree into a value above 3.
SplinePath(s) ==
    LET degree == s.degree_of_curve
        ncp == s.control_points
        knots == s.knot_values
    IN IF ~s.z_up THEN NoPath
       ELSE IF degree < 0 \/ degree > 3 THEN NoPath
       ELSE IF ncp < degree + 1 THEN NoPath
       ELSE IF Len(knots) < ncp + degree + 1 THEN NoPath
       ELSE LET unique_knots ==
                    Sorted({knots[i] : i \in (degree + 1)..(Len(knots) - degree)})
            IN IF unique_knots = << >> THEN NoPath
               ELSE IF eval_spline(degree, ncp, knots, unique_knots[1]).panic THEN PathPanic
               ELSE IF \E w \in 1..(Len(unique_knots) - 1) :
                          SplineSpan(degree, ncp, knots, unique_knots[w], unique_knots[w + 1])
               THEN PathPanic
               ELSE SomePath(<< MoveTo(<<0, 0>>) >>
                             \o [w \in 1..(Len(unique_knots) - 1) |-> SpanEl])

\* Polyline vertices [x, y, bulge]: coordinates count units of 1e-11 and
\* bulges units of 1e-7. NearZeroSq is the square of 1e-10 in these units.
NearZeroSq == 100

\* `theta.abs() < 1e-6` for theta = 4 atan(bulge): the bulge is below
\* tan(2.5e-7), which lies between 2.5 and 3 units.
ThetaNegligible(bulge) == -5 <= 2 * bulge /\ 2 * bulge <= 5

\* The cubics of one arc, ending at p: u holds the square of the chord length
\* d that `h / d` divides by, v the bulge.
ArcTo(p, d_squared, bulge) == PathEl("A", p, <<d_squared, 0>>, <<bulge, 0>>)
ClosePath == PathEl("Z", <<0, 0>>, <<0, 0>>, <<0, 0>>)

\* (end - start).hypot(), squared.
ChordSq(start, end) ==
    (end[1] - start[1]) * (end[1] - start[1]) + (end[2] - start[2]) * (end[2] - start[2])

add_poly_segment_any_chord(bp, start, end, bulge) ==
    IF bulge = 0 THEN Append(bp, LineTo(end))
    ELSE IF ThetaNegligible(bulge) THEN Append(bp, LineTo(end))
    ELSE Append(bp, ArcTo(end, ChordSq(start, end), bulge))

\* add_poly_segment(bp, start, end, bulge)
add_poly_segment(bp, start, end, bulge) ==
    IF bulge = 0 THEN Append(bp, LineTo(end))
    ELSE IF ThetaNegligible(bulge) THEN Append(bp, LineTo(end))
    ELSE IF ChordSq(start, end) < NearZeroSq THEN Append(bp, LineTo(end))
    ELSE Append(bp, ArcTo(end, ChordSq(start, end), bulge))

lwp_vertex_to_point(vertex) == <<vertex.x, -vertex.y>>

\* `for w in lwp.vertices.windows(2)` from window k on.
RECURSIVE PolyWindows(_, _, _)
PolyWindows(vertices, k, bp) ==
    IF k >= Len(vertices) THEN bp
    ELSE PolyWindows(vertices, k + 1,
                     add_poly_segment(bp, lwp_vertex_to_point(vertices[k]),
                                      lwp_vertex_to_point(vertices[k + 1]),
                                      -vertices[k].bulge))

\* path_from_entity for EntityType::LwPolyline.
LwPolylinePath(lwp) ==
    IF ~lwp.z_up THEN NoPath
    ELSE IF Len(lwp.vertices) < 2 THEN NoPath
    ELSE LET bp == PolyWindows(lwp.vertices, 1,
                               << MoveTo(lwp_vertex_to_point(lwp.vertices[1])) >>)
         IN SomePath(IF lwp.is_closed THEN Append(bp, ClosePath) ELSE bp)

\* path_from_entity: the path of a supported entity, none otherwise.
path_from_entity(e) ==
    CASE e.kind = "LINE" ->
            IF ~e.z_up THEN NoPath
            ELSE SomePath(<< MoveTo(point_from_dxf_point(e.p1)),
                             LineTo(point_from_dxf_point(e.p2)) >>)
      [] e.kind = "CIRCLE" ->
            IF ~e.z_up THEN NoPath
            ELSE SomePath(<< CirclePath(point_from_dxf_point(e.center), e.radius) >>)
      [] e.kind = "SPLINE" -> SplinePath(e)
      [] e.kind = "LWPOLYLINE" -> LwPolylinePath(e)
      [] OTHER -> NoPath

----------------------------------------------------------------------------
(* The entity loop of load_file_default_layers.                              *)

\* What the loop body works on: the palette of the bag, the interned paints,
\* the items pushed and the maps of the drawing. panic says that the body
\* panicked; color, color_panic, weight and handle are those of the last
\* resolve_paint.
LoadState ==
    [palette |-> palette, paints |-> paints, resolved |-> resolved, items |-> items,
     render_layer |-> render_layer, item_entity_map |-> item_entity_map,
     entity_layer_map |-> entity_layer_map, panic |-> FALSE,
     color |-> BLACK, color_panic |-> FALSE, weight |-> LWDEFAULT, handle |-> 0]

\* resolve_paint(gb, lw, c) of entity e.
resolve_paint(e, lw, c, st) ==
    LET layer == e.layer
        color == CombinedColor(c, e, layer)
        color_panic == OpaqueColor(c, e, layer).panic
        lwconcrete == LwConcrete(lw, layer, overflow_checks)
        weight == lwconcrete.val
        key == PaintKey(color, weight)
        fresh == key \notin DOMAIN st.paints
        handle == IF fresh THEN Len(st.palette) ELSE st.paints[key]
    IN IF color_panic \/ lwconcrete.panic
       THEN [st EXCEPT !.panic = TRUE, !.color = color, !.color_panic = color_panic]
       ELSE [st EXCEPT
               !.palette = IF fresh
                           THEN Append(@, [stroke |-> DefaultStroke, stroke_paint |-> color,
                                           fill_paint |-> None])
                           ELSE @,
               !.paints = [k \in DOMAIN @ \cup {key} |-> IF k \in DOMAIN @ THEN @[k] ELSE handle],
               !.resolved = Append(@, [color |-> color, weight |-> weight, handle |-> handle,
                                       lw |-> lw, c |-> c]),
               !.color = color, !.color_panic = FALSE, !.weight = weight, !.handle = handle]

\* FatShape { path, paint, .. } and FatText { insertion, .. } as graphics items.
FatShape(path, paint) == [kind |-> "FatShape", path |-> path, paint |-> paint]
FatText(insertion) == [kind |-> "FatText", path |-> << MoveTo(insertion) >>, paint |-> 0]

push_item_first_handle(e, item, st) ==
    [st EXCEPT
       !.items = Append(@, item),
       !.render_layer = Append(@, 0),
       !.item_entity_map = [k \in DOMAIN @ \cup {1} |-> IF k = 1 THEN e.handle ELSE @[k]],
       !.entity_layer_map = [h \in DOMAIN @ \cup {e.handle} |->
                                IF h = e.handle THEN e.layer ELSE @[h]]]

\* push_item(gb, item) of entity e: rl.push_with_bag pushes the item on the
\* bag and its handle on the render layer; the maps record entity and layer.
\* item_entity_map holds the entry of ItemHandle(ih) under ih + 1.
push_item(e, item, st) ==
    LET ih == Len(st.items)
    IN [st EXCEPT
          !.items = Append(@, item),
          !.render_layer = Append(@, ih),
          !.item_entity_map = [k \in DOMAIN @ \cup {ih + 1} |->
                                  IF k = ih + 1 THEN e.handle ELSE @[k]],
          !.entity_layer_map = [h \in DOMAIN @ \cup {e.handle} |->
                                   IF h = e.handle THEN e.layer ELSE @[h]]]

TopChunkAsInsert(e, chunk, st) ==
    LET paid == resolve_paint(e, e.lineweight_enum_value, e.color, st)
    IN IF paid.panic THEN paid
       ELSE push_item(e, FatShape(ArrayTop(e, chunk[3]), paid.handle), paid)

\* The body of `for (lw, ce, clines) in b` of a top-level insert.
TopChunk(e, chunk, st) ==
    LET paid == resolve_paint(e,
                   IF chunk[1] = -1 THEN e.lineweight_enum_value ELSE chunk[1],
                   IF chunk[2] = 0 THEN e.color ELSE chunk[2], st)
    IN IF paid.panic THEN paid
       ELSE push_item(e, FatShape(ArrayTop(e, chunk[3]), paid.handle), paid)

\* `for (lw, ce, clines) in b` of a top-level insert, from chunk k on.
RECURSIVE TopChunks(_, _, _, _)
TopChunks(e, bchunks, k, st) ==
    IF k > Len(bchunks) \/ st.panic THEN st
    ELSE CHOOSE out \in
           { TopChunks(e, bchunks, k + 1, after) :
               after \in {TopChunk(e, bchunks[k], st)} } : TRUE

\* `match e.specific` of the entity loop, after entity_paint was resolved.
MatchSpecific(e, map, st) ==
    CASE e.kind = "INSERT" ->
            IF ~e.z_up THEN st
            ELSE IF HasBlock(map, e.name) THEN TopChunks(e, GetBlock(map, e.name), 1, st)
            ELSE st
      [] e.kind \in {"TEXT", "MTEXT"} ->
            IF ~e.z_up THEN st
            ELSE push_item(e, FatText(point_from_dxf_point(e.location)), st)
      [] OTHER ->
            LET s == path_from_entity(e)
            IN IF s.panic THEN [st EXCEPT !.panic = TRUE]
               ELSE IF s.some THEN push_item(e, FatShape(s.path, st.handle), st)
               ELSE st

\* One entity of `for e in drawing.entities()`: the visibility filter, the
\* entity and layer handles, resolve_paint for the entity's own line weight
\* and colour, and the items the entity turns into.
LoadEntity ==
    /\ load_pc = "entities"
    /\ next_entity <= Len(drawing.entities)
    /\ LET e == drawing.entities[next_entity]
       IN IF ~e.is_visible \/ ~(e.layer_name = "" \/ InVisibleLayers(e))
          THEN /\ next_entity' = next_entity + 1
               /\ call' = [op |-> "skip"]
               /\ UNCHANGED <<items, palette, paints, resolved, load_pc, sceneVars>>
          ELSE IF e.handle = 0
          THEN /\ load_pc' = "panic"
               /\ call' = [op |-> "entity_handle", e |-> e, panic |-> TRUE]
               /\ UNCHANGED <<items, palette, paints, resolved, next_entity, sceneVars>>
          ELSE IF LayerLookupPanics(e)
          THEN /\ load_pc' = "panic"
               /\ call' = [op |-> "layer_lookup", e |-> e, panic |-> TRUE]
               /\ UNCHANGED <<items, palette, paints, resolved, next_entity, sceneVars>>
          ELSE \E paid \in {resolve_paint(e, e.lineweight_enum_value, e.color, LoadState)} :
               \E st \in {IF paid.panic THEN paid ELSE MatchSpecific(e, blocks, paid)} :
                 /\ palette' = st.palette
                 /\ paints' = st.paints
                 /\ resolved' = st.resolved
                 /\ items' = st.items
                 /\ render_layer' = st.render_layer
                 /\ item_entity_map' = st.item_entity_map
                 /\ entity_layer_map' = st.entity_layer_map
                 /\ IF paid.panic
                    THEN call' = [op |-> "resolve_paint", e |-> e, color |-> paid.color,
                                  color_panic |-> paid.color_panic, panic |-> TRUE]
                    ELSE IF st.panic
                    THEN call' = [op |-> "match_specific", e |-> e, panic |-> TRUE]
                    ELSE call' = [op |-> "resolve_paint", e |-> e, color |-> paid.color,
                                  color_panic |-> FALSE, panic |-> FALSE,
                                  weight |-> paid.weight, handle |-> paid.handle]
                 /\ IF st.panic
                    THEN load_pc' = "panic" /\ next_entity' = next_entity
                    ELSE load_pc' = load_pc /\ next_entity' = next_entity + 1
    /\ UNCHANGED <<final_transforms, managed_transforms, seq_final,
                   drawing, overflow_checks, blockVars, entity_index, app>>

\* The end of the entity loop: the drawing is returned.
LoadDone ==
    /\ load_pc = "entities"
    /\ next_entity > Len(drawing.entities)
    /\ load_pc' = "done"
    /\ call' = [op |-> "load_done"]
    /\ UNCHANGED <<bagVars, seq_final, drawing, overflow_checks, next_entity, paints,
                   resolved, blockVars, sceneVars, entity_index, app>>

NextLoad == LoadEntity \/ LoadDone

\* The state of load_file_default_layers at the entity loop of a drawing
\* without blocks: the bag holds the default paint at slot 0.
InitEntities(entities) ==
    /\ items = << >>
    /\ final_transforms = << IDENTITY >>
    /\ managed_transforms = << [parent |-> ROOT, local |-> IDENTITY] >>
    /\ palette = << [stroke |-> DefaultStroke, stroke_paint |-> BLACK, fill_paint |-> None] >>
    /\ call = [op |-> "default"]
    /\ seq_final = final_transforms
    /\ drawing \in [entities : entities, blocks : {<< >>}]
    /\ overflow_checks \in BOOLEAN
    /\ load_pc = "entities"
    /\ next_entity = 1
    /\ paints = << >>
    /\ resolved = << >>
    /\ blocks = {}
    /\ unresolved_blocks = << >>
    /\ there_is_absolutely_no_hope = FALSE
    /\ last_pass = {}
    /\ render_layer = << >>
    /\ item_entity_map = << >>
    /\ entity_layer_map = << >>
    /\ entity_index = NoIndex
    /\ app = NoApp

\* Longest entity list of a drawing.
MaxEntities == 2

\* Entities of the style-interning runs: weights and colours that resolve to
\* equal and to different (colour, weight) pairs.
StyleEntities ==
    { Entity(lw, c, layer, TRUE, 0, 255) :
        lw \in {-3, -2, 25, 50}, c \in {-1, 1, 256}, layer \in {LayerNoStyle, LayerRed50} }
    \cup { Entity(-3, 256, LayerOff, TRUE, 0, 255),
           Entity(-3, 256, LayerRed50, FALSE, 0, 255),
           Entity(-3, 257, LayerRed50, TRUE, 128, 255) }

SeqsUpTo(S, n) == UNION {[1..k -> S] : k \in 0..n}

InitStyle == InitEntities(SeqsUpTo(StyleEntities, MaxEntities))

SpecStyle == InitStyle /\ [][NextLoad]_vars

\* C6: two resolutions of a load return the same PaintHandle exactly when their
\* resolved (rgba colour, concrete weight) pairs are equal; an identical pair
\* reuses its handle without growing the palette and a new pair registers
\* exactly one new palette slot.
C6_InternByColorAndWeight ==
    /\ \A i, j \in 1..Len(resolved) :
          (resolved[i].handle = resolved[j].handle)
              <=> (resolved[i].color = resolved[j].color /\ resolved[i].weight = resolved[j].weight)
    /\ Len(palette) = 1 + Cardinality({<<resolved[i].color, resolved[i].weight>> :
                                          i \in 1..Len(resolved)})
    /\ \A i \in 1..Len(resolved) : resolved[i].handle \in 1..(Len(palette) - 1)

\* Two different entities resolved to one shared handle.
C6_Witness ==
    /\ load_pc = "done"
    /\ Len(resolved) = 2 /\ Len(drawing.entities) = 2
    /\ drawing.entities[1].lineweight_enum_value # drawing.entities[2].lineweight_enum_value
    /\ drawing.entities[1].color # drawing.entities[2].color
    /\ resolved[1].handle = resolved[2].handle
    /\ Len(palette) = 2

----------------------------------------------------------------------------
(* resolve_paint on one entity, over the range of its inputs. *)

LineWeights == {-32768, -4, 25, 211, 32767} \cup (-3..3)
ColorEnums == {-32768, -1, 0, 1, 7, 255, 256, 257, 258, 32767}
Layers ==
    { LayerNoStyle, LayerRed50,
      [color |-> 255, line_weight |-> 0, is_layer_on |-> TRUE],
      [color |-> 256, line_weight |-> 211, is_layer_on |-> TRUE] }
Transparencies == {0, 33554560, -1}
Colors24 == {255, -1}

ResolveEntities ==
    { Entity(lw, c, layer, TRUE, t, rgb) :
        lw \in LineWeights, c \in ColorEnums, layer \in Layers,
        t \in Transparencies, rgb \in Colors24 }

InitResolve == InitEntities([1..1 -> ResolveEntities])

SpecResolve == InitResolve /\ [][NextLoad]_vars

\* A weight in iota as a whole number of micrometres, -1 if it is not one (or
\* is beyond the range of an i16 times ten).
Micrometres(w) ==
    LET d == U64DivMod(w, MICROMETER)
    IN IF d.rem = 0 /\ d.quot[4] = 0 /\ d.quot[3] = 0 /\ d.quot[2] < 8
       THEN d.quot[2] * LimbBase + d.quot[1] ELSE -1

\* The weight the entity should resolve to, in micrometres.
ExpectedMicrometres(e) ==
    LET lw == e.lineweight_enum_value
    IN IF lw >= 0 THEN lw * 10
       ELSE IF lw = -2 /\ e.layer.line_weight > 0 THEN e.layer.line_weight * 10
       ELSE 250

\* C7: for every 16-bit line-weight value of a top-level entity the resolved
\* weight is value x 10 micrometres for a non-negative value, the layer's weight
\* (or 250 micrometres if the layer has none) for by-layer (-2), and 250
\* micrometres for by-block (-1) and every other out-of-range value.
C7_LineWeightResolution ==
    call.op = "resolve_paint" =>
        /\ ~call.panic
        /\ Micrometres(call.weight) = ExpectedMicrometres(call.e)

\* The colour values that have no colour of their own.
IsFallbackColor(e) ==
    \/ e.color = 256 /\ ~(e.layer.color \in 1..255)
    \/ e.color \notin (1..257)

\* C8: colour resolution never panics, and a by-layer colour on a layer without
\* a colour index, or a value that is not by-entity, by-layer or in 1..=255,
\* resolves to r = g = b = 255 with alpha 255 minus the transparency byte.
C8_ColorFallback ==
    call.op = "resolve_paint" =>
        /\ ~call.color_panic
        /\ IsFallbackColor(call.e) =>
              /\ call.color[1] = 255 /\ call.color[2] = 255 /\ call.color[3] = 255
              /\ call.color[4] + (call.e.transparency % 256) = 255
              /\ call.color[4] \in 0..255

\* A by-layer colour on a layer without a colour index, with a transparency
\* byte, resolved and interned.
C8_Witness ==
    /\ call.op = "resolve_paint" /\ ~call.panic
    /\ call.e.color = 256 /\ call.e.layer.color = 0
    /\ call.e.transparency = 33554560
    /\ call.color = <<255, 255, 255, 127>>
    /\ palette[call.handle + 1].stroke_paint = <<255, 255, 255, 127>>

----------------------------------------------------------------------------
(* Block resolution of load_file_default_layers.                             *)

\* resolve_style(lh, lw, ce) of the block loop.
resolve_style(layer, lw, ce) ==
    << IF lw = -2 THEN (IF layer.line_weight < 0 THEN 25 ELSE layer.line_weight) ELSE lw,
       IF ce = 256 THEN (IF HasIndex(layer.color) THEN layer.color ELSE 7) ELSE ce >>

\* `for (lw, ce, clines) in b` of an insert nested in a block: the chunks
\* pushed for the chunks of the inserted block.
InsertChunks(bchunks, ins, cur_style) ==
    [k \in 1..Len(bchunks) |->
        << IF bchunks[k][1] = -1 THEN cur_style[1] ELSE bchunks[k][1],
           IF bchunks[k][2] = 0 THEN cur_style[2] ELSE bchunks[k][2],
           ArrayNested(ins, bchunks[k][3]) >>]

\* The state of the entity loop of a block: the chunks pushed, the lines of
\* the open chunk and its style; abort says that the block was given up
\* (continue 'block), panic that the loop panicked.
LoopState(chunks, lines, cur_style) ==
    [abort |-> FALSE, panic |-> FALSE, chunks |-> chunks, lines |-> lines,
     cur_style |-> cur_style]

\* chunks.push((cur_style.0, cur_style.1, lines)) if lines is not empty.
PushOpenChunk(acc) ==
    IF acc.lines # << >>
    THEN Append(acc.chunks, <<acc.cur_style[1], acc.cur_style[2], acc.lines>>)
    ELSE acc.chunks

\* The body of `for e in b.entities.iter()`.
EntityStep(e, map, acc) ==
    IF LayerLookupPanics(e) THEN [acc EXCEPT !.panic = TRUE]
    ELSE LET style == resolve_style(e.layer, e.lineweight_enum_value, e.color)
             a1 == IF style # acc.cur_style
                   THEN LoopState(Append(acc.chunks,
                                         <<acc.cur_style[1], acc.cur_style[2], acc.lines>>),
                                  << >>, style)
                   ELSE acc
         IN IF e.kind = "INSERT" /\ ~HasBlock(map, e.name) THEN [acc EXCEPT !.abort = TRUE]
            ELSE IF e.kind = "INSERT"
            THEN IF ~e.z_up THEN a1
                 ELSE LoopState(PushOpenChunk(a1)
                                    \o InsertChunks(GetBlock(map, e.name), e, a1.cur_style),
                                << >>, a1.cur_style)
            ELSE LET s == path_from_entity(e)
                 IN IF s.panic THEN [acc EXCEPT !.panic = TRUE]
                    ELSE [a1 EXCEPT !.lines = a1.lines \o s.path]

\* The loop over the entities of block b from entity i on. The state after
\* an entity is bound through a one-element set, which computes it once.
RECURSIVE EntityLoop(_, _, _, _)
EntityLoop(b, i, map, acc) ==
    IF i > Len(b.entities) \/ acc.abort \/ acc.panic THEN acc
    ELSE CHOOSE out \in
           { EntityLoop(b, i + 1, map, after) :
               after \in {EntityStep(b.entities[i], map, acc)} } : TRUE

\* The body of `'block: for b in unresolved_blocks.iter()` for one block.
ResolveBlock(b, map) ==
    IF b.entities = << >> THEN [abort |-> FALSE, panic |-> FALSE, chunks |-> << >>]
    ELSE LET e1 == b.entities[1]
         IN IF LayerLookupPanics(e1)
            THEN [abort |-> FALSE, panic |-> TRUE, chunks |-> << >>]
            ELSE CHOOSE out \in
                   { [abort |-> acc.abort, panic |-> acc.panic, chunks |-> PushOpenChunk(acc)] :
                       acc \in {EntityLoop(b, 1, map,
                                    LoopState(<< >>, << >>,
                                              resolve_style(e1.layer, e1.lineweight_enum_value,
                                                            e1.color)))} } : TRUE

\* there_is_absolutely_no_hope after block b: it is cleared when a block with
\* entities was resolved, and left alone by an empty block and by a block that
\* was given up.
NoHopeAfter(b, hope_lost, r) == hope_lost /\ (r.abort \/ b.entities = << >>)

\* The state of a pass after block b, r being what its loop body came to.
AfterBlock(b, st, r) ==
    IF r.panic THEN [st EXCEPT !.panic = TRUE]
    ELSE [blocks |-> IF r.abort THEN st.blocks ELSE InsertBlock(st.blocks, b.name, r.chunks),
          no_hope |-> NoHopeAfter(b, st.no_hope, r),
          resolved |-> IF r.abort THEN st.resolved ELSE st.resolved \cup {b.name},
          panic |-> FALSE]

\* One pass over unresolved_blocks from block k on. The result of a block and
\* the state after it are bound through one-element sets, which computes each
\* of them once.
RECURSIVE PassLoop(_, _, _)
PassLoop(list, k, st) ==
    IF k > Len(list) \/ st.panic THEN st
    ELSE CHOOSE out \in
           { PassLoop(list, k + 1, after) :
               after \in { AfterBlock(list[k], st, r) :
                              r \in {ResolveBlock(list[k], st.blocks)} } } : TRUE

\* unresolved_blocks.retain(|b| !blocks.contains_key(b.name))
RECURSIVE Retain(_, _)
Retain(list, map) ==
    IF list = << >> THEN << >>
    ELSE IF HasBlock(map, Head(list).name) THEN Retain(Tail(list), map)
         ELSE << Head(list) >> \o Retain(Tail(list), map)

LoopsWhileUnresolved(list, no_hope) == list # << >>

\* The condition of the `while` of the block resolution loop.
LoopCondition(list, no_hope) == list # << >> /\ ~no_hope

\* One iteration of the while loop: a pass over the unresolved blocks.
ResolvePass ==
    /\ load_pc = "blocks"
    /\ LoopCondition(unresolved_blocks, there_is_absolutely_no_hope)
    /\ \E st \in {PassLoop(unresolved_blocks, 1,
                            [blocks |-> blocks, no_hope |-> TRUE, resolved |-> {},
                             panic |-> FALSE])} :
          /\ blocks' = st.blocks
          /\ there_is_absolutely_no_hope' = st.no_hope
          /\ last_pass' = st.resolved
          /\ unresolved_blocks' = IF st.panic THEN unresolved_blocks
                                  ELSE Retain(unresolved_blocks, st.blocks)
          /\ load_pc' = IF st.panic THEN "panic" ELSE load_pc
          /\ call' = [op |-> "resolve_pass", panic |-> st.panic]
    /\ UNCHANGED <<bagVars, seq_final, drawing, overflow_checks, next_entity,
                   paints, resolved, sceneVars, entity_index, app>>

\* The while loop ends and the load goes on to the entities.
BlocksDone ==
    /\ load_pc = "blocks"
    /\ ~LoopCondition(unresolved_blocks, there_is_absolutely_no_hope)
    /\ load_pc' = "entities"
    /\ call' = [op |-> "blocks_done"]
    /\ UNCHANGED <<bagVars, seq_final, drawing, overflow_checks, next_entity,
                   paints, resolved, blockVars, sceneVars, entity_index, app>>


\* Largest number of blocks of a drawing.
MaxBlocks == 3

\* The block names of a drawing of n blocks, in the order of drawing.blocks().
BlockName(k) == <<"A", "B", "C", "D", "E", "F">>[k]
\* A name no block has.
MissingName == "missing"

BlockLine == [DefaultEntity EXCEPT !.lineweight_enum_value = -1]
BlockInsert(name) ==
    [DefaultEntity EXCEPT !.kind = "INSERT", !.name = name, !.lineweight_enum_value = 25,
                          !.color = 1]

\* The entity lists of a block in a drawing of n blocks: empty, one line, one
\* insert of any block of the drawing or of a missing one, or two inserts of
\* blocks next to each other in the drawing.
BlockBodies(n) ==
    LET Target(t) == IF t > n THEN MissingName ELSE BlockName(t)
    IN {<< >>, << BlockLine >>}
       \cup {<< BlockInsert(Target(t)) >> : t \in 1..(n + 1)}
       \cup {<< BlockInsert(Target(t)), BlockInsert(Target(t + 1)) >> : t \in 1..(n - 1)}

\* The library of n blocks with the given entity lists.
Library(n, bodies) == [k \in 1..n |-> [name |-> BlockName(k), entities |-> bodies[k]]]

\* load_file_default_layers opens a drawing: the bag is fresh, with the default
\* paint, and every block of the drawing is still to resolve.
OpenDrawing ==
    /\ load_pc = "idle"
    /\ \E n \in 0..MaxBlocks : \E bodies \in [1..n -> BlockBodies(n)] :
          /\ drawing' = [entities |-> << >>, blocks |-> Library(n, bodies)]
          /\ unresolved_blocks' = Library(n, bodies)
    /\ palette' = << [stroke |-> DefaultStroke, stroke_paint |-> BLACK, fill_paint |-> None] >>
    /\ load_pc' = "blocks"
    /\ call' = [op |-> "open"]
    /\ UNCHANGED <<items, final_transforms, managed_transforms, seq_final, overflow_checks,
                   next_entity, paints, resolved, blocks, there_is_absolutely_no_hope,
                   last_pass, sceneVars, entity_index, app>>

NextBlocks == OpenDrawing \/ ResolvePass \/ BlocksDone \/ LoadDone

SpecBlocks == InitBag /\ [][NextBlocks]_vars

\* The load is a sequential program: once a drawing is open it keeps running
\* while it can. Which drawing is opened, and when, is the caller's choice.
SpecBlocksFair == SpecBlocks /\ WF_vars(ResolvePass \/ BlocksDone \/ LoadDone)

\* The library of the drawing: its names and who inserts whom.
LibraryNames == {drawing.blocks[k].name : k \in 1..Len(drawing.blocks)}
InsertsOf(name) ==
    UNION { {b.entities[i].name : i \in {j \in 1..Len(b.entities) : b.entities[j].kind = "INSERT"}} :
              b \in {drawing.blocks[k] : k \in {j \in 1..Len(drawing.blocks) :
                                                  drawing.blocks[j].name = name}} }

\* The names reached from a set of names by following inserts, n times.
RECURSIVE InsertedWithin(_, _)
InsertedWithin(S, n) ==
    IF n = 0 THEN S
    ELSE InsertedWithin(S \cup UNION {InsertsOf(m) : m \in S}, n - 1)

\* Every block a block transitively inserts.
TransitiveInserts(name) == InsertedWithin(InsertsOf(name), Len(drawing.blocks))

OnCycle(name) == name \in TransitiveInserts(name)

\* The inserts of the block lead to no missing block and to no cycle.
Resolvable(name) ==
    /\ ~OnCycle(name)
    /\ \A m \in TransitiveInserts(name) : m \in LibraryNames /\ ~OnCycle(m)

BlocksFinished == load_pc \in {"entities", "done"}

\* C9: when block resolution finishes, whatever the order of the blocks, every
\* block whose transitively inserted blocks all exist and form no cycle is in
\* the resolved block table, and the loop has stopped with blocks left over
\* only after a pass that resolved no block.
C9_ResolvableBlocksResolved ==
    BlocksFinished =>
        /\ \A name \in LibraryNames : Resolvable(name) => HasBlock(blocks, name)
        /\ unresolved_blocks # << >> => last_pass = {}

\* C10: block resolution terminates for every library, with self-inserting
\* blocks, cycles and inserts of missing blocks; the blocks on a cycle or
\* depending on a missing block are left unresolved and the load goes on.
C10_BlockResolutionTerminates ==
    /\ load_pc = "blocks" ~> load_pc = "done"
    /\ [](BlocksFinished =>
            \A name \in LibraryNames : ~Resolvable(name) => ~HasBlock(blocks, name))

\* A finished load of a library with a self-inserting block, a cycle of two
\* blocks and an insert of a missing block, all left unresolved.
C10_Witness ==
    /\ load_pc = "done"
    /\ \E a \in LibraryNames : a \in InsertsOf(a)
    /\ \E a, b \in LibraryNames : a # b /\ b \in InsertsOf(a) /\ a \in InsertsOf(b)
    /\ \E a \in LibraryNames : MissingName \in InsertsOf(a)
    /\ Len(unresolved_blocks) = Len(drawing.blocks) /\ blocks = {}

----------------------------------------------------------------------------
(* Inserts: a drawing of a block A with one entity, a block B with one       *)
(* insert of A, and one top-level insert of A or of B.                       *)

\* Largest row and column count of a top-level insert.
MaxCount == 2

Styled(e, style) == [e EXCEPT !.lineweight_enum_value = style[1], !.color = style[2]]

\* The entity of block A: a line from (1, 2) to (3, 2) or a circle of radius
\* 1 at the origin.
GeometryEntities ==
    { [DefaultEntity EXCEPT !.kind = "LINE", !.p1 = <<1, 2>>, !.p2 = <<3, 2>>],
      [DefaultEntity EXCEPT !.kind = "CIRCLE", !.center = <<0, 0>>, !.radius = 1] }

InsertOf(name, scale, rotation, location, counts, spacing) ==
    [DefaultEntity EXCEPT !.kind = "INSERT", !.name = name,
                          !.x_scale_factor = scale[1], !.y_scale_factor = scale[2],
                          !.rotation = rotation, !.location = location,
                          !.row_count = counts[1], !.column_count = counts[2],
                          !.column_spacing = spacing[1], !.row_spacing = spacing[2]]

\* The inserts of A that block B holds.
NestedInserts ==
    { InsertOf("A", scale, rotation, <<1, 2>>, counts, <<3, 4>>) :
        scale \in {<<1, 1>>, <<2, 3>>}, rotation \in {0, 1}, counts \in {<<1, 1>>, <<2, 2>>} }

\* The top-level inserts.
TopInserts ==
    { InsertOf(name, scale, rotation, location, <<rows, columns>>, <<5, 7>>) :
        name \in {"A", "B"}, scale \in {<<1, 1>>, <<2, -1>>}, rotation \in 0..3,
        location \in {<<0, 0>>, <<3, 4>>}, rows \in 0..MaxCount, columns \in 1..MaxCount }

InsertDrawings ==
    { [entities |-> << Styled(top, ts) >>,
       blocks |-> << [name |-> "A", entities |-> << Styled(g, bs) >>],
                     [name |-> "B", entities |-> << Styled(nested, ns) >>] >>] :
        top \in TopInserts, ts \in {<<70, 5>>, <<-2, 256>>},
        g \in GeometryEntities, bs \in {<<-1, 0>>, <<50, 3>>},
        nested \in NestedInserts, ns \in {<<25, 1>>} }

\* load_file_default_layers at the block loop of a drawing with inserts.
InitInsertOf(drawings) ==
    /\ items = << >>
    /\ final_transforms = << IDENTITY >>
    /\ managed_transforms = << [parent |-> ROOT, local |-> IDENTITY] >>
    /\ palette = << [stroke |-> DefaultStroke, stroke_paint |-> BLACK, fill_paint |-> None] >>
    /\ call = [op |-> "open"]
    /\ seq_final = final_transforms
    /\ drawing \in drawings
    /\ overflow_checks \in BOOLEAN
    /\ load_pc = "blocks"
    /\ next_entity = 1
    /\ paints = << >>
    /\ resolved = << >>
    /\ blocks = {}
    /\ unresolved_blocks = drawing.blocks
    /\ there_is_absolutely_no_hope = FALSE
    /\ last_pass = {}
    /\ render_layer = << >>
    /\ item_entity_map = << >>
    /\ entity_layer_map = << >>
    /\ entity_index = NoIndex
    /\ app = NoApp

InitInsert == InitInsertOf(InsertDrawings)

NextFile == ResolvePass \/ BlocksDone \/ LoadEntity \/ LoadDone

SpecInsert == InitInsert /\ [][NextFile]_vars

\* The steps of an array cell on a point, one after the other. The rotation
\* is the insert's counterclockwise rotation in the y-up frame of the DXF,
\* seen in the y-down frame of the drawing.
FlipY(p) == <<p[1], -p[2]>>
QuarterTurns(p, th) ==
    CASE th % 4 = 0 -> p
      [] th % 4 = 1 -> <<-p[2], p[1]>>
      [] th % 4 = 2 -> <<-p[1], -p[2]>>
      [] th % 4 = 3 -> <<p[2], -p[1]>>
ScaleStep(p, ins) == <<ins.x_scale_factor * p[1], ins.y_scale_factor * p[2]>>
CellStep(p, ins, i, j) == <<p[1] + j * ins.column_spacing, p[2] + i * ins.row_spacing>>
RotateStep(p, ins) == FlipY(QuarterTurns(FlipY(p), ins.rotation))
PlaceStep(p, ins) == <<p[1] + ins.location[1], p[2] - ins.location[2]>>

CellPoint(p, ins, i, j) == PlaceStep(RotateStep(CellStep(ScaleStep(p, ins), ins, i, j), ins), ins)
CellVector(w, ins) == RotateStep(ScaleStep(w, ins), ins)
CellEl(el, ins, i, j) ==
    [op |-> el.op, p |-> CellPoint(el.p, ins, i, j), u |-> CellVector(el.u, ins),
     v |-> CellVector(el.v, ins)]

\* path is geometry `geom` arrayed by insert ins: cell (i, j) holds the
\* elements of geom, each taken through the steps of the cell.
IsArrayOf(path, ins, geom) ==
    /\ Len(path) = (IF ins.row_count <= 0 \/ ins.column_count <= 0 THEN 0
                    ELSE ins.row_count * ins.column_count * Len(geom))
    /\ \A i \in 0..(ins.row_count - 1) : \A j \in 0..(ins.column_count - 1) :
          \A k \in 1..Len(geom) :
             path[(i * ins.column_count + j) * Len(geom) + k] = CellEl(geom[k], ins, i, j)

\* The drawing's top-level insert, the nested insert of block B and the
\* geometry of block A.
TopInsert == drawing.entities[1]
NestedInsert == drawing.blocks[2].entities[1]
GeometryOfA == path_from_entity(drawing.blocks[1].entities[1]).path

InsertLoaded ==
    /\ load_pc = "done"
    /\ Len(drawing.entities) = 1 /\ TopInsert.kind = "INSERT"

\* C11: every array cell (row i, column j) of an insert carries the block
\* geometry through scale, then translation by (j x column spacing, i x row
\* spacing), then rotation, then translation to the insertion point, for the
\* top-level insert and for the insert nested in a block alike.
C11_InsertTransformOrder ==
    InsertLoaded =>
        /\ Len(items) = 1
        /\ TopInsert.name = "A" => IsArrayOf(items[1].path, TopInsert, GeometryOfA)
        /\ TopInsert.name = "B" =>
              /\ Len(GetBlock(blocks, "B")) = 1
              /\ IsArrayOf(GetBlock(blocks, "B")[1][3], NestedInsert, GeometryOfA)
              /\ IsArrayOf(items[1].path, TopInsert, GetBlock(blocks, "B")[1][3])

\* A rotated, scaled 2 x 2 top-level array of block B, itself a rotated,
\* scaled 2 x 2 array of the line of block A.
C11_Witness ==
    /\ InsertLoaded
    /\ TopInsert.name = "B" /\ TopInsert.rotation = 1 /\ TopInsert.x_scale_factor = 2
    /\ TopInsert.location = <<3, 4>>
    /\ TopInsert.row_count = 2 /\ TopInsert.column_count = 2
    /\ NestedInsert.rotation = 1 /\ NestedInsert.x_scale_factor = 2
    /\ NestedInsert.row_count = 2
    /\ drawing.blocks[1].entities[1].kind = "LINE"
    /\ Len(items) = 1 /\ Len(items[1].path) = 32

\* The bounding box <<x0, y0, x1, y1>> of a path element and of a path that
\* is not empty. The half axes of a circle's image stay along the axes under
\* scaling and quarter turns.
Abs(x) == IF x < 0 THEN -x ELSE x
MinOf(S) == CHOOSE x \in S : \A y \in S : x <= y
MaxOf(S) == CHOOSE x \in S : \A y \in S : x >= y
ElBox(el) ==
    LET rx == Abs(el.u[1]) + Abs(el.v[1])
        ry == Abs(el.u[2]) + Abs(el.v[2])
    IN <<el.p[1] - rx, el.p[2] - ry, el.p[1] + rx, el.p[2] + ry>>
PathBox(path) ==
    << MinOf({ElBox(path[k])[1] : k \in 1..Len(path)}),
       MinOf({ElBox(path[k])[2] : k \in 1..Len(path)}),
       MaxOf({ElBox(path[k])[3] : k \in 1..Len(path)}),
       MaxOf({ElBox(path[k])[4] : k \in 1..Len(path)}) >>
\* Twice the centre of a box, and the squared distance of two points.
TwiceCenter(box) == <<box[1] + box[3], box[2] + box[4]>>
DistSq(p, q) == (p[1] - q[1]) * (p[1] - q[1]) + (p[2] - q[2]) * (p[2] - q[2])

\* Scenario B: block A holds one circle of radius 1 and is inserted unscaled
\* and unrotated with a 2 x 1 array, 2 columns at spacing 5 in 1 row.
ScenarioB ==
    /\ InsertLoaded
    /\ TopInsert.name = "A"
    /\ drawing.blocks[1].entities[1].kind = "CIRCLE"
    /\ drawing.blocks[1].entities[1].radius = 1
    /\ TopInsert.row_count = 1 /\ TopInsert.column_count = 2
    /\ TopInsert.column_spacing = 5
    /\ TopInsert.x_scale_factor = 1 /\ TopInsert.y_scale_factor = 1
    /\ TopInsert.rotation = 0

\* The circles of a path.
CirclesOf(path) == {k \in 1..Len(path) : path[k].op = "O"}

\* C12 as stated: the 2 x 1 insert of the circle block expands to exactly 2
\* shapes in the drawing, with bounding-box centres 5 model units apart.
C12_TwoShapes ==
    ScenarioB =>
        /\ Len(items) = 2
        /\ DistSq(TwiceCenter(PathBox(items[1].path)),
                  TwiceCenter(PathBox(items[2].path))) = 4 * 25

\* C12 as amended: an insert expands to one shape for each chunk of the
\* block, and the path of that shape holds one transformed copy of the
\* chunk's geometry for every array cell, rows x columns copies; the 2 x 1
\* insert of the circle block gives one shape that holds exactly 2 circles
\* with bounding-box centres 5 model units apart.
C12_CopiesPerCell ==
    InsertLoaded =>
        LET chunks == GetBlock(blocks, TopInsert.name)
        IN /\ Len(items) = Len(chunks)
           /\ \A c \in 1..Len(chunks) :
                 /\ Len(items[c].path)
                       = TopInsert.row_count * TopInsert.column_count * Len(chunks[c][3])
                 /\ \A m \in 1..Len(items[c].path) :
                       items[c].path[m].op = chunks[c][3][((m - 1) % Len(chunks[c][3])) + 1].op
           /\ ScenarioB =>
                 /\ Len(items) = 1
                 /\ Cardinality(CirclesOf(items[1].path)) = 2
                 /\ \A a, b \in CirclesOf(items[1].path) :
                       a # b => DistSq(TwiceCenter(ElBox(items[1].path[a])),
                                       TwiceCenter(ElBox(items[1].path[b]))) = 4 * 25

\* The circle block inserted as a 2 x 1 array: one shape of two circles.
C12_Witness ==
    /\ ScenarioB
    /\ Len(items) = 1 /\ Len(items[1].path) = 2
    /\ items[1].path[1].p = <<0, 0>> /\ items[1].path[2].p = <<5, 0>>

----------------------------------------------------------------------------
(* By-block styles: the drawings of the insert runs with one geometry and    *)
(* the line weights and colours of the entities varied.                      *)

\* (line weight, colour) of an entity in a block: by-block, explicit,
\* by-layer, default weight, and mixtures.
BlockStyles == {<<-1, 0>>, <<50, 3>>, <<-1, 3>>, <<50, 0>>, <<-2, 256>>, <<-3, 7>>}
NestedStyles == {<<25, 1>>, <<-1, 0>>, <<-2, 256>>}
TopStyles == {<<70, 5>>, <<-2, 256>>, <<-3, 1>>}

PlainInsert(name) == InsertOf(name, <<1, 1>>, 0, <<0, 0>>, <<1, 1>>, <<0, 0>>)

\* The entity lists of block A: one line, or two lines of two styles.
ByBlockBodies ==
    { << Styled([DefaultEntity EXCEPT !.layer = layer], bs) >> :
        bs \in BlockStyles, layer \in {LayerRed50, LayerNoStyle} }
    \cup { << Styled(DefaultEntity, s1), Styled(DefaultEntity, s2) >> :
             s1 \in {<<-1, 0>>, <<50, 3>>}, s2 \in {<<-1, 0>>, <<-1, 3>>, <<20, 2>>} }

ByBlockDrawings ==
    { [entities |-> << Styled(PlainInsert(name), ts) >>,
       blocks |-> << [name |-> "A", entities |-> body],
                     [name |-> "B", entities |-> << Styled(PlainInsert("A"), ns) >>] >>] :
        name \in {"A", "B"}, ts \in TopStyles, body \in ByBlockBodies, ns \in NestedStyles }

InitByBlock == InitInsertOf(ByBlockDrawings)

SpecByBlock == InitByBlock /\ [][NextFile]_vars

\* Chunk `to` carries the style of chunk `from` with the by-block values
\* replaced by the line weight and colour of the inserting instance.
Substituted(to, from, lw, c) ==
    /\ to[1] = (IF from[1] = -1 THEN lw ELSE from[1])
    /\ to[2] = (IF from[2] = 0 THEN c ELSE from[2])

----------------------------------------------------------------------------
(* Loads of drawings with entities of every type, orientation, handle and    *)
(* layer reference.                                                          *)

\* A layer name that is not in the layer table.
UnknownLayer == "unknown"

\* The entity types read, one unsupported type among them ("POINT"), facing
\* +Z or not.
EntityTypes == {"LINE", "CIRCLE", "TEXT", "MTEXT", "POINT", "SPLINE"}

OddEntities ==
    { [DefaultEntity EXCEPT !.kind = kind, !.z_up = z_up] :
        kind \in EntityTypes, z_up \in BOOLEAN }
    \cup { [PlainInsert(name) EXCEPT !.z_up = z_up] :
             name \in {"A", MissingName}, z_up \in BOOLEAN }
    \cup { [DefaultEntity EXCEPT !.handle = 0],
           [DefaultEntity EXCEPT !.layer_name = ""],
           [DefaultEntity EXCEPT !.layer_name = UnknownLayer],
           [DefaultEntity EXCEPT !.is_visible = FALSE, !.handle = 0],
           [DefaultEntity EXCEPT !.layer = LayerOff] }

\* The entity lists of block A.
OddBodies ==
    { << >>, << DefaultEntity >>,
      << DefaultEntity, [DefaultEntity EXCEPT !.layer_name = UnknownLayer] >>,
      << [DefaultEntity EXCEPT !.kind = "POINT", !.handle = 0] >> }

OddDrawings ==
    { [entities |-> entities, blocks |-> << [name |-> "A", entities |-> body] >>] :
        entities \in SeqsUpTo(OddEntities, MaxEntities), body \in OddBodies }

InitLoad == InitInsertOf(OddDrawings)

SpecLoad == InitLoad /\ [][NextFile]_vars

\* C14: a load never aborts because of one entity: whatever the entity's
\* type, orientation, geometry, handle or layer reference, at the top level
\* or in a block, the load goes on to the next entity and to the end.
C14_LoadNeverAborts == load_pc # "panic"

----------------------------------------------------------------------------
(* path_from_entity on splines of every degree, number of control points    *)
(* and knot vector.                                                          *)

\* Most control points and longest knot vector of a spline: a cubic needs 4
\* control points and 8 knots.
MaxControlPoints == 4
MaxKnots == 8

SplineEntities ==
    { [DefaultEntity EXCEPT !.kind = "SPLINE", !.degree_of_curve = degree,
                            !.control_points = ncp, !.knot_values = knots] :
        degree \in -1..4, ncp \in 0..MaxControlPoints,
        knots \in SeqsUpTo({0, 1}, MaxKnots) }

InitSpline ==
    /\ InitEntities([1..1 -> SplineEntities])
    /\ overflow_checks = FALSE

SpecSpline == InitSpline /\ [][NextLoad]_vars

\* C15: path_from_entity on a spline never panics: for every degree, 0 and
\* values above 3 included, every number of control points and every knot
\* vector it returns a path or none.
C15_SplineNeverPanics ==
    ~(call.op = "match_specific" /\ call.e.kind = "SPLINE" /\ call.panic)

----------------------------------------------------------------------------
(* The viewer's spatial indices: EntityIndex over the segments of the shape  *)
(* items and TextCullIndex over the measured text boxes.                     *)

\* `x as f32` of a whole number: exact up to 2^24, and rounded to the nearest
\* even number (ties to the even mantissa) from there up to 2^25.
F32(x) ==
    IF Abs(x) <= Pow24 \/ x % 2 = 0 THEN x
    ELSE IF (x + 1) % 4 = 0 THEN x + 1 ELSE x - 1

\* path.segments() from element k on, cur being the current point: the line
\* segments of a path of MoveTo and LineTo elements.
RECURSIVE Segments(_, _, _)
Segments(path, k, cur) ==
    IF k > Len(path) THEN << >>
    ELSE IF path[k].op = "M" THEN Segments(path, k + 1, path[k].p)
    ELSE << [p0 |-> cur, p1 |-> path[k].p] >> \o Segments(path, k + 1, path[k].p)

IndexEntriesOneBased(its, iem, k) ==
    IF k > Len(iem) \/ its[k].kind # "FatShape" THEN << >>
    ELSE [n \in 1..Len(Segments(its[k].path, 1, <<0, 0>>)) |->
             [seg |-> Segments(its[k].path, 1, <<0, 0>>)[n], entity |-> iem[k],
              item |-> k]]

\* The loop of EntityIndex::new over item_entity_map: the entries pushed for
\* the item at position k of the bag, whose handle is k - 1. Items that are
\* not shapes are passed over.
IndexEntries(its, iem, k) ==
    IF k > Len(iem) \/ its[k].kind # "FatShape" THEN << >>
    ELSE [n \in 1..Len(Segments(its[k].path, 1, <<0, 0>>)) |->
             [seg |-> Segments(its[k].path, 1, <<0, 0>>)[n], entity |-> iem[k],
              item |-> k - 1]]

\* lines, entity_mapping and item_mapping after the loop, as one list of
\* entries from item k on.
RECURSIVE AllEntries(_, _, _)
AllEntries(its, iem, k) ==
    IF k > Len(iem) THEN << >>
    ELSE IndexEntries(its, iem, k) \o AllEntries(its, iem, k + 1)

\* Shape::bounding_box of a line segment.
SegBox(seg) ==
    << MinOf({seg.p0[1], seg.p1[1]}), MinOf({seg.p0[2], seg.p1[2]}),
       MaxOf({seg.p0[1], seg.p1[1]}), MaxOf({seg.p0[2], seg.p1[2]}) >>

compute_bounds_index_start(lines) ==
    [i \in 1..Len(lines) |->
        <<F32(lines[i].p0[1]), F32(lines[i].p0[2]), F32(lines[i].p0[1]), F32(lines[i].p0[2])>>]

\* compute_bounds_index: the boxes added to the index, by position.
compute_bounds_index(lines) ==
    [i \in 1..Len(lines) |->
        <<F32(SegBox(lines[i])[1]), F32(SegBox(lines[i])[2]),
          F32(SegBox(lines[i])[3]), F32(SegBox(lines[i])[4])>>]

OverlapsInside(box, q) ==
    box[1] >= q[1] /\ box[2] >= q[2] /\ box[3] <= q[3] /\ box[4] <= q[4]

\* The overlap test of StaticAABB2DIndex::query: boxes that touch count.
Overlaps(box, q) ==
    ~(q[3] < box[1] \/ q[4] < box[2] \/ q[1] > box[3] \/ q[2] > box[4])

\* StaticAABB2DIndex::query: the positions whose boxes overlap q, in the
\* order in which the index visits them.
RECURSIVE Query(_, _, _, _)
Query(boxes, order, q, k) ==
    IF k > Len(order) THEN << >>
    ELSE (IF Overlaps(boxes[order[k]], q) THEN << order[k] >> ELSE << >>)
         \o Query(boxes, order, q, k + 1)

\* The orders in which an index of n boxes can visit them.
Orders(n) == {f \in [1..n -> 1..n] : \A a, b \in 1..n : f[a] = f[b] => a = b}

\* The sizes text layout measures.
TextSizes == {<<4, 2>>, <<6, 1>>}

\* measure_text_items and the loop of TextCullIndex::new: the text items of
\* the render layer from position k on, each with the box of its layout of
\* the measured size at its insertion point.
RECURSIVE TextEntries(_, _, _, _)
TextEntries(its, layer, sizes, k) ==
    IF k > Len(layer) THEN << >>
    ELSE (IF its[layer[k] + 1].kind = "FatText"
          THEN LET at == its[layer[k] + 1].path[1].p
                   size == sizes[k]
               IN << [item |-> layer[k],
                      box |-> <<F32(at[1]), F32(at[2]),
                                F32(at[1] + size[1]), F32(at[2] + size[2])>>] >>
          ELSE << >>)
         \o TextEntries(its, layer, sizes, k + 1)

\* The fields EntityIndex::new and TextCullIndex::new leave, or the panic
\* of `build().unwrap()` where the crate refuses an index without items.
NewIndices(entries, texts, order, zero_items_ok) ==
    IF (entries = << >> \/ texts = << >>) /\ ~zero_items_ok
    THEN [NoIndex EXCEPT !.panic = TRUE]
    ELSE [built |-> TRUE, panic |-> FALSE,
          lines |-> [i \in 1..Len(entries) |-> entries[i].seg],
          boxes |-> compute_bounds_index([i \in 1..Len(entries) |-> entries[i].seg]),
          entity_mapping |-> [i \in 1..Len(entries) |-> entries[i].entity],
          item_mapping |-> [i \in 1..Len(entries) |-> entries[i].item],
          order |-> order,
          text_boxes |-> [i \in 1..Len(texts) |-> texts[i].box],
          text_item_mapping |-> [i \in 1..Len(texts) |-> texts[i].item]]

\* EntityIndex::new and TextCullIndex::new on a loaded drawing: every outcome.
\* The index crate chooses the order of its hits, text layout the measured
\* sizes, and the crate's version whether an index without items can be built.
IndexOutcomes(its, iem, layer) ==
    UNION { UNION { { NewIndices(entries, TextEntries(its, layer, sizes, 1), order, ok) :
                        order \in Orders(Len(entries)), ok \in BOOLEAN } :
                    sizes \in [1..Len(layer) -> TextSizes] } :
            entries \in {AllEntries(its, iem, 1)} }

BuildIndices ==
    /\ load_pc = "done"
    /\ ~entity_index.built /\ ~entity_index.panic
    /\ entity_index' \in IndexOutcomes(items, item_entity_map, render_layer)
    /\ call' = [op |-> "build"]
    /\ UNCHANGED <<bagVars, seq_final, drawing, overflow_checks, load_pc, next_entity,
                   paints, resolved, blockVars, sceneVars, app>>

\* `<` on squared distances, which are fractions <<numerator, denominator>>.
FracLt(x, y) == x[1] * y[2] < y[1] * x[2]

\* Line::nearest(p).distance_sq: the squared distance of p to the segment.
NearestDistSq(seg, p) ==
    LET dx == seg.p1[1] - seg.p0[1]
        dy == seg.p1[2] - seg.p0[2]
        dotp == dx * (p[1] - seg.p0[1]) + dy * (p[2] - seg.p0[2])
        d_squared == dx * dx + dy * dy
    IN IF dotp <= 0 THEN <<DistSq(p, seg.p0), 1>>
       ELSE IF dotp >= d_squared THEN <<DistSq(p, seg.p1), 1>>
       ELSE <<DistSq(p, seg.p0) * d_squared - dotp * dotp, d_squared>>

\* The fold of pick over the hits from hit k on: acc is (dsq, i), with i = 0
\* for None.
RECURSIVE PickFold(_, _, _, _, _, _)
PickFold(lines, hits, dp, sp, k, acc) ==
    IF k > Len(hits) THEN acc
    ELSE LET b == hits[k]
             ndsq == NearestDistSq(lines[b], dp)
         IN PickFold(lines, hits, dp, sp, k + 1,
                     IF FracLt(ndsq, acc.dsq) /\ FracLt(ndsq, <<sp * sp, 1>>)
                     THEN [dsq |-> ndsq, i |-> b]
                     ELSE acc)

\* EntityIndex::pick(dp, sp): the position and entity picked, some = FALSE
\* for None.
pick(index, dp, sp) ==
    LET hits == Query(index.boxes, index.order,
                      <<F32(dp[1] - sp), F32(dp[2] - sp), F32(dp[1] + sp), F32(dp[2] + sp)>>, 1)
        found == PickFold(index.lines, hits, dp, sp, 1, [dsq |-> INFINITY, i |-> 0])
    IN [some |-> found.i # 0, index |-> found.i,
        handle |-> IF found.i # 0 THEN index.entity_mapping[found.i] ELSE 0]

\* EntityIndex::query_items and TextCullIndex::query_items.
query_items(boxes, order, item_mapping, rect) ==
    LET hits == Query(boxes, order, rect, 1)
    IN {item_mapping[hits[k]] : k \in 1..Len(hits)}

\* The points and radii picked with, and the viewports culled with.
PickPoints == {<<5, 0>>, <<5, 1>>, <<3, -4>>, <<0, 0>>, <<12, 0>>, <<5, -2>>}
Radii == {0, 1, 2, 5}
Viewports ==
    { <<-1, -1, 1, 1>>, <<-1, -1, 11, 1>>, <<-3, -3, -1, -1>>, <<-100, -100, 100, 100>>,
      <<4, -6, 6, 6>>, <<19, -21, 27, -17>>, <<Pow24, -22, Pow24 + 12, 2>> }

Pick ==
    /\ entity_index.built
    /\ \E dp \in PickPoints : \E sp \in Radii :
          call' = [op |-> "pick", dp |-> dp, sp |-> sp, result |-> pick(entity_index, dp, sp)]
    /\ UNCHANGED <<bagVars, seq_final, loadVars>>

QueryItems ==
    /\ entity_index.built
    /\ \E rect \in Viewports :
          call' = [op |-> "query_items", rect |-> rect,
                   result |-> query_items(entity_index.boxes, entity_index.order,
                                          entity_index.item_mapping, rect)]
    /\ UNCHANGED <<bagVars, seq_final, loadVars>>

QueryText ==
    /\ entity_index.built
    /\ \E rect \in Viewports :
          call' = [op |-> "query_text", rect |-> rect,
                   result |-> query_items(entity_index.text_boxes,
                                          [i \in 1..Len(entity_index.text_boxes) |-> i],
                                          entity_index.text_item_mapping, rect)]
    /\ UNCHANGED <<bagVars, seq_final, loadVars>>

\* The entities of the viewer's drawings: two lines crossing at (5, 0), a
\* slanted line, a text, and a text beyond the whole numbers f32 holds
\* exactly; the entity at position i has handle i.
ViewerGeometries ==
    { [DefaultEntity EXCEPT !.p1 = <<0, 0>>, !.p2 = <<10, 0>>],
      [DefaultEntity EXCEPT !.p1 = <<5, -5>>, !.p2 = <<5, 5>>],
      [DefaultEntity EXCEPT !.p1 = <<0, 0>>, !.p2 = <<6, 8>>],
      [DefaultEntity EXCEPT !.kind = "TEXT", !.location = <<20, 20>>],
      [DefaultEntity EXCEPT !.kind = "TEXT", !.location = <<Pow24 + 1, 20>>] }

ViewerDrawings ==
    UNION { { [i \in 1..n |-> [g[i] EXCEPT !.handle = i]] : g \in [1..n -> ViewerGeometries] } :
              n \in 0..MaxEntities }

InitViewer ==
    /\ InitEntities(ViewerDrawings)
    /\ overflow_checks = FALSE

NextViewer == LoadEntity \/ LoadDone \/ BuildIndices \/ Pick \/ QueryItems \/ QueryText

SpecViewer == InitViewer /\ [][NextViewer]_vars

----------------------------------------------------------------------------
(* Picking.                                                                  *)

Picked == call.op = "pick"

\* The positions of the indexed segments.
Indexed == 1..Len(entity_index.lines)

\* The squared distance of the pick point to the segment at position j.
PickDistSq(j) == NearestDistSq(entity_index.lines[j], call.dp)

\* The pick point is the exact midpoint of the segment at position j.
AtMidpoint(j) ==
    /\ 2 * call.dp[1] = entity_index.lines[j].p0[1] + entity_index.lines[j].p1[1]
    /\ 2 * call.dp[2] = entity_index.lines[j].p0[2] + entity_index.lines[j].p1[2]

\* C16: a pick at the exact midpoint of a line segment with radius 0 returns
\* the entity handle of a line with that midpoint.
C16_MidpointRadiusZero ==
    (Picked /\ call.sp = 0 /\ \E j \in Indexed : AtMidpoint(j))
        => /\ call.result.some
           /\ \E j \in Indexed : AtMidpoint(j) /\ call.result.handle = entity_index.entity_mapping[j]

\* C17: when several segments are at the same, minimal squared distance
\* below the squared radius, the pick returns the entity of the one inserted
\* last.
C17_TieGoesToLastInserted ==
    (Picked /\ call.result.some)
        => \A j \in Indexed :
              (~FracLt(PickDistSq(j), PickDistSq(call.result.index))
               /\ ~FracLt(PickDistSq(call.result.index), PickDistSq(j)))
                  => j <= call.result.index

\* The segments nearer to the pick point than the radius.
WithinRadius == {j \in Indexed : FracLt(PickDistSq(j), <<call.sp * call.sp, 1>>)}

\* The square region a pick queries the index with.
PickRegion ==
    <<call.dp[1] - call.sp, call.dp[2] - call.sp, call.dp[1] + call.sp, call.dp[2] + call.sp>>

\* C18: a pick returns the entity of a segment whose squared distance is
\* minimal among all indexed segments and below the squared radius, and
\* returns nothing exactly when no indexed segment is that near.
C18_PickNearestWithinRadius ==
    Picked =>
        /\ call.result.some <=> WithinRadius # {}
        /\ call.result.some =>
              /\ call.result.index \in WithinRadius
              /\ \A j \in Indexed : ~FracLt(PickDistSq(j), PickDistSq(call.result.index))
              /\ call.result.handle = entity_index.entity_mapping[call.result.index]

\* Two segments within the radius at different distances, the nearer one
\* picked although it is not the first in the drawing.
C18_Witness ==
    /\ Picked /\ call.result.some
    /\ call.result.index = 2
    /\ 1 \in WithinRadius
    /\ FracLt(PickDistSq(2), PickDistSq(1))

----------------------------------------------------------------------------
(* Culling.                                                                  *)

\* Position i of the shape index was recorded for the item that holds its
\* segment.
RecordedAtBuild(i) ==
    LET ih == entity_index.item_mapping[i]
    IN /\ ih + 1 \in 1..Len(items)
       /\ items[ih + 1].kind = "FatShape"
       /\ \E n \in 1..Len(Segments(items[ih + 1].path, 1, <<0, 0>>)) :
             Segments(items[ih + 1].path, 1, <<0, 0>>)[n] = entity_index.lines[i]

\* Position i of the text index was recorded for the text item placed at
\* its box.
TextRecordedAtBuild(i) ==
    LET ih == entity_index.text_item_mapping[i]
    IN /\ ih + 1 \in 1..Len(items)
       /\ items[ih + 1].kind = "FatText"
       /\ F32(items[ih + 1].path[1].p[1]) = entity_index.text_boxes[i][1]
       /\ F32(items[ih + 1].path[1].p[2]) = entity_index.text_boxes[i][2]

Contains(rect, box) ==
    rect[1] <= box[1] /\ rect[2] <= box[2] /\ box[3] <= rect[3] /\ box[4] <= rect[4]

\* C19: a cull query whose rectangle fully contains an indexed bounding box
\* returns the item handle mapped to that box, and every position's handle is
\* the one recorded for it at build time; for the shape index and the text
\* index alike.
C19_CullRoundTrip ==
    /\ call.op = "query_items" =>
          \A i \in 1..Len(entity_index.boxes) :
             /\ RecordedAtBuild(i)
             /\ Contains(call.rect, entity_index.boxes[i])
                   => entity_index.item_mapping[i] \in call.result
    /\ call.op = "query_text" =>
          \A i \in 1..Len(entity_index.text_boxes) :
             /\ TextRecordedAtBuild(i)
             /\ Contains(call.rect, entity_index.text_boxes[i])
                   => entity_index.text_item_mapping[i] \in call.result

\* A cull over a text and a line that returns the second item only, its box
\* being the one inside the rectangle.
C19_Witness ==
    /\ call.op = "query_items"
    /\ Len(items) = 2 /\ items[1].kind = "FatText"
    /\ Contains(call.rect, entity_index.boxes[1])
    /\ call.result = {1}

\* The drawing of scenario A: one LINE from the origin, 10 units long.
ScenarioA ==
    /\ Len(drawing.entities) = 1
    /\ drawing.entities[1].kind = "LINE"
    /\ drawing.entities[1].p1 = <<0, 0>> /\ drawing.entities[1].p2 = <<10, 0>>
    /\ call.op = "query_items"

\* C20 as stated: in scenario A the viewport [-1,-1,1,1] culls to the empty
\* set and the viewport [-1,-1,11,1] to exactly the one item.
C20_ScenarioA ==
    ScenarioA =>
        /\ call.rect = <<-1, -1, 1, 1>> => call.result = {}
        /\ call.rect = <<-1, -1, 11, 1>> => call.result = {0}

\* C20: in scenario A the viewport [-1,-1,1,1], which overlaps the line's
\* bounding box, culls to exactly the one item, and so does the viewport
\* [-1,-1,11,1].
C20_ScenarioAOverlap ==
    ScenarioA =>
        /\ call.rect = <<-1, -1, 1, 1>> => call.result = {0}
        /\ call.rect = <<-1, -1, 11, 1>> => call.result = {0}

C20_Witness ==
    /\ ScenarioA
    /\ call.rect = <<-1, -1, 1, 1>>
    /\ call.result = {0}

----------------------------------------------------------------------------
(* The viewer application: hover threads, file drops, input events and the   *)
(* reprojection protocol of window_event.                                    *)

\* Most input events (hovered files, cursor, button and wheel events) of a run.
MaxEvents == 3

\* A load thread starts on, or is joined and leaves, a fresh loader state:
\* GraphicsBag::default() and empty maps, with drawing d at position pc.
LoaderBecomes(d, pc, pal) ==
    /\ items' = << >>
    /\ final_transforms' = << IDENTITY >>
    /\ managed_transforms' = << [parent |-> ROOT, local |-> IDENTITY] >>
    /\ palette' = pal
    /\ seq_final' = << IDENTITY >>
    /\ drawing' = d
    /\ load_pc' = pc
    /\ next_entity' = 1
    /\ paints' = << >>
    /\ resolved' = << >>
    /\ blocks' = {}
    /\ unresolved_blocks' = << >>
    /\ there_is_absolutely_no_hope' = FALSE
    /\ last_pass' = {}
    /\ render_layer' = << >>
    /\ item_entity_map' = << >>
    /\ entity_layer_map' = << >>
    /\ entity_index' = NoIndex
    /\ UNCHANGED overflow_checks

\* The files hovered and dropped: a line with a text, a line alone, and a
\* line whose handle is 0, on which the load thread panics.
AppDrawings ==
    { [entities |-> << [DefaultEntity EXCEPT !.handle = 1, !.p1 = <<0, 0>>, !.p2 = <<10, 0>>],
                       [DefaultEntity EXCEPT !.handle = 2, !.kind = "TEXT",
                                             !.location = <<20, 20>>] >>,
       blocks |-> << >>],
      [entities |-> << [DefaultEntity EXCEPT !.handle = 1, !.p1 = <<0, 0>>, !.p2 = <<6, 8>>] >>,
       blocks |-> << >>],
      [entities |-> << [DefaultEntity EXCEPT !.handle = 0, !.p1 = <<0, 0>>, !.p2 = <<10, 0>>] >>,
       blocks |-> << >>] }

\* WindowEvent::HoveredFile: a thread is spawned that runs load_drawing. A
\* file that Drawing::load_file rejects ends the load with Err at once.
HoveredFile ==
    /\ ~app.crashed /\ app.events < MaxEvents
    /\ load_pc = "idle"
    /\ \/ \E d \in AppDrawings :
             LoaderBecomes(d, "entities",
                           << [stroke |-> DefaultStroke, stroke_paint |-> BLACK,
                               fill_paint |-> None] >>)
       \/ LoaderBecomes(drawing, "err", palette)
    /\ app' = [app EXCEPT !.events = @ + 1]
    /\ call' = [op |-> "hovered_file"]

\* What a reprojection reads of the DrawingViewer: the drawing, its indices,
\* the view and the pick.
Projected(v) == [v EXCEPT !.defer_reprojection = FALSE, !.primary_pan = FALSE]

\* Whether the tail of window_event runs a reprojection.
Reprojects(a, reproject, reproject_deferred) ==
    /\ reproject \/ reproject_deferred
    /\ a.viewer.some
    /\ reproject_deferred \/ ~a.viewer.defer_reprojection

ReprojectTailAlwaysDefers(a, reproject, reproject_deferred) ==
    IF ~Reprojects(a, reproject, reproject_deferred) THEN a
    ELSE [a EXCEPT !.viewer.defer_reprojection = TRUE,
                   !.shown = Projected(a.viewer),
                   !.redraw_requested = TRUE]

\* `if reproject || reproject_deferred { .. }` at the end of window_event.
ReprojectTail(a, reproject, reproject_deferred) ==
    IF ~Reprojects(a, reproject, reproject_deferred) THEN a
    ELSE [a EXCEPT !.viewer.defer_reprojection = reproject,
                   !.shown = Projected(a.viewer),
                   !.redraw_requested = TRUE]

DroppedClearsOnFailure(a, loaded, td, index) ==
    IF ~loaded THEN [a EXCEPT !.viewer = NoViewer]
    ELSE IF index.panic THEN [a EXCEPT !.crashed = TRUE]
    ELSE ReprojectTail([a EXCEPT !.viewer =
                           [some |-> TRUE, td |-> td, picking_index |-> index,
                            view_transform |-> <<0, 0>>, view_scale |-> 0, pick |-> 0,
                            primary_pan |-> FALSE, defer_reprojection |-> FALSE]],
                       TRUE, FALSE)

\* WindowEvent::DroppedFile once the thread is joined: loaded is whether the
\* join gave Ok(Ok(drawing)), td the drawing and index the outcome of
\* EntityIndex::new and TextCullIndex::new on it.
Dropped(a, loaded, td, index) ==
    IF ~loaded THEN a
    ELSE IF index.panic THEN [a EXCEPT !.crashed = TRUE]
    ELSE ReprojectTail([a EXCEPT !.viewer =
                           [some |-> TRUE, td |-> td, picking_index |-> index,
                            view_transform |-> <<0, 0>>, view_scale |-> 0, pick |-> 0,
                            primary_pan |-> FALSE, defer_reprojection |-> FALSE]],
                       TRUE, FALSE)

\* The Result the load thread is joined with: the drawing only when the load
\* ran to its end, nothing when it returned Err or panicked.
JoinResult ==
    IF load_pc = "done"
    THEN [ok |-> TRUE,
          td |-> [graphics |-> items, render_layer |-> render_layer,
                  item_entity_map |-> item_entity_map]]
    ELSE [ok |-> FALSE, td |-> << >>]

\* WindowEvent::DroppedFile: the hover thread of the file is joined. (A file
\* dropped without a hover thread is loaded by a thread spawned here, which
\* is HoveredFile followed by this action.)
DroppedFile ==
    /\ ~app.crashed
    /\ load_pc \in {"done", "panic", "err"}
    /\ \E index \in IF JoinResult.ok
                    THEN IndexOutcomes(items, item_entity_map, render_layer)
                    ELSE {NoIndex} :
          /\ app' = Dropped(app, JoinResult.ok, JoinResult.td, index)
          /\ call' = [op |-> "dropped_file", ok |-> JoinResult.ok, td |-> JoinResult.td,
                      reprojected |-> JoinResult.ok /\ ~index.panic]
    /\ LoaderBecomes([entities |-> << >>, blocks |-> << >>], "idle", << >>)

\* WindowEvent::HoveredFileCancelled: the hover threads are let go.
HoveredFileCancelled ==
    /\ ~app.crashed
    /\ load_pc # "idle"
    /\ LoaderBecomes([entities |-> << >>, blocks |-> << >>], "idle", << >>)
    /\ call' = [op |-> "hovered_file_cancelled"]
    /\ UNCHANGED app

\* The model-space points the cursor is moved to, and the pick radius there.
CursorPoints == {<<5, 0>>, <<12, 3>>}
PickRadius == 1

\* WindowEvent::CursorMoved: a pan while the primary button is held, else a
\* pick, which asks for a reprojection when the picked entity changes.
CursorMoved ==
    /\ ~app.crashed /\ app.events < MaxEvents
    /\ app.viewer.some
    /\ \E dp \in CursorPoints :
          LET moved == [app EXCEPT !.events = @ + 1]
              found == pick(app.viewer.picking_index, dp, PickRadius).handle
          IN IF app.viewer.primary_pan
             THEN /\ app' = ReprojectTail([moved EXCEPT !.viewer.view_transform[1] = @ + 1],
                                          TRUE, FALSE)
                  /\ call' = [op |-> "cursor_moved", request |-> TRUE,
                              reprojected |-> Reprojects(app, TRUE, FALSE)]
             ELSE /\ app' = ReprojectTail([moved EXCEPT !.viewer.pick = found],
                                          found # app.viewer.pick, FALSE)
                  /\ call' = [op |-> "cursor_moved", request |-> found # app.viewer.pick,
                              reprojected |-> Reprojects(app, found # app.viewer.pick, FALSE)]
    /\ UNCHANGED <<bagVars, seq_final, loadVarsOfThread>>

\* WindowEvent::MouseInput of the left button.
MouseInput ==
    /\ ~app.crashed /\ app.events < MaxEvents
    /\ app.viewer.some
    /\ \E pressed \in BOOLEAN :
          app' = [app EXCEPT !.events = @ + 1, !.viewer.primary_pan = pressed]
    /\ call' = [op |-> "mouse_input", request |-> FALSE, reprojected |-> FALSE]
    /\ UNCHANGED <<bagVars, seq_final, loadVarsOfThread>>

\* WindowEvent::MouseWheel and WindowEvent::PinchGesture: a zoom step.
MouseWheel ==
    /\ ~app.crashed /\ app.events < MaxEvents
    /\ app.viewer.some
    /\ app' = ReprojectTail([app EXCEPT !.events = @ + 1,
                                        !.viewer.view_transform[2] = @ + 1,
                                        !.viewer.view_scale = @ + 1],
                            TRUE, FALSE)
    /\ call' = [op |-> "mouse_wheel", request |-> TRUE,
                reprojected |-> Reprojects(app, TRUE, FALSE)]
    /\ UNCHANGED <<bagVars, seq_final, loadVarsOfThread>>

\* WindowEvent::RedrawRequested: the frame is rendered, and a deferred
\* reprojection is run.
RedrawRequested ==
    /\ ~app.crashed
    /\ app' = ReprojectTail([app EXCEPT !.redraw_requested = FALSE], FALSE,
                            app.viewer.some /\ app.viewer.defer_reprojection)
    /\ call' = [op |-> "redraw_requested", request |-> FALSE,
                reprojected |-> app.viewer.some /\ app.viewer.defer_reprojection]
    /\ UNCHANGED <<bagVars, seq_final, loadVarsOfThread>>

InitApp == InitBag

NextApp ==
    \/ HoveredFile \/ LoadEntity \/ LoadDone \/ DroppedFile \/ HoveredFileCancelled
    \/ CursorMoved \/ MouseInput \/ MouseWheel \/ RedrawRequested

SpecApp == InitApp /\ [][NextApp]_vars

\* Every requested redraw is delivered.
SpecAppFair == SpecApp /\ WF_vars(RedrawRequested)

\* The step is a DroppedFile whose load failed: Err from the file, or a load
\* thread that panicked.
FailedDrop == load_pc \in {"err", "panic"} /\ call'.op = "dropped_file"

\* C21: a failed load produces no drawing, and the viewer's drawing, indices,
\* pick and view are left as they were.
C21_FailedLoadLeavesViewer ==
    [][FailedDrop => (call'.td = << >> /\ ~call'.ok /\ app' = app)]_vars

\* A failed drop while a drawing is displayed.
C21_Witness ==
    /\ call.op = "dropped_file" /\ ~call.ok
    /\ app.viewer.some

\* The scene is projected from the viewer's present drawing, view and pick.
UpToDate == app.shown = Projected(app.viewer)

\* No reprojection is deferred and no redraw is on its way.
Quiet == ~app.viewer.defer_reprojection /\ ~app.redraw_requested

\* The step is a pan, zoom or pick change arriving while defer_reprojection
\* is set.
DeferredRequest ==
    /\ app.viewer.some /\ app.viewer.defer_reprojection
    /\ call'.op \in {"cursor_moved", "mouse_wheel"} /\ call'.request

\* C29: a reprojection requested while defer_reprojection is set does not run
\* in that step, yet with every requested redraw delivered a reprojection from
\* the latest view follows, and once input has stopped defer_reprojection is
\* false again and nothing asks for a further reprojection.
C29_DeferredReprojectionNotLost ==
    /\ [][DeferredRequest => (app'.shown = app.shown /\ ~call'.reprojected)]_vars
    /\ ~UpToDate ~> (UpToDate \/ app.crashed)
    /\ <>[](app.crashed \/ (Quiet /\ UpToDate))

\* A request has been deferred: the scene is behind the view.
C29_Witness ==
    /\ call.op \in {"cursor_moved", "mouse_wheel"} /\ call.request /\ ~call.reprojected
    /\ app.viewer.defer_reprojection
    /\ ~UpToDate

----------------------------------------------------------------------------
(* tabulon::shape: AnyShape and the FatShape made of subshapes.              *)

\* Most subshapes of a FatShape.
MaxSubshapes == 2

Line(p0, p1) == [shape |-> "Line", p0 |-> p0, p1 |-> p1]
Circle(center, radius) == [shape |-> "Circle", center |-> center, radius |-> radius]
Rect(x0, y0, x1, y1) == [shape |-> "Rect", x0 |-> x0, y0 |-> y0, x1 |-> x1, y1 |-> y1]

\* AnyShape::contains: a line has no inside, a circle's inside is open, a
\* rectangle's is half-open.
contains(x, p) ==
    CASE x.shape = "Line" -> FALSE
      [] x.shape = "Circle" -> DistSq(p, x.center) < x.radius * x.radius
      [] x.shape = "Rect" -> p[1] >= x.x0 /\ p[1] < x.x1 /\ p[2] >= x.y0 /\ p[2] < x.y1

\* AnyShape::bounding_box, as <<x0, y0, x1, y1>>.
any_bounding_box(x) ==
    CASE x.shape = "Line" -> SegBox(x)
      [] x.shape = "Circle" ->
            <<x.center[1] - x.radius, x.center[2] - x.radius,
              x.center[1] + x.radius, x.center[2] + x.radius>>
      [] x.shape = "Rect" ->
            <<MinOf({x.x0, x.x1}), MinOf({x.y0, x.y1}), MaxOf({x.x0, x.x1}), MaxOf({x.y0, x.y1})>>

\* Rect::union
union(a, b) ==
    <<MinOf({a[1], b[1]}), MinOf({a[2], b[2]}), MaxOf({a[3], b[3]}), MaxOf({a[4], b[4]})>>

\* The fold of FatShape::bounding_box over the subshapes from k on.
RECURSIVE UnionFold(_, _, _)
UnionFold(subshapes, k, a) ==
    IF k > Len(subshapes) THEN a
    ELSE UnionFold(subshapes, k + 1, union(a, any_bounding_box(subshapes[k])))

\* FatShape::bounding_box: `subshapes.get(1)` is the second subshape.
bounding_box(shape) ==
    IF Len(shape.subshapes) >= 2
    THEN [some |-> TRUE,
          rect |-> UnionFold(shape.subshapes, 1, any_bounding_box(shape.subshapes[2]))]
    ELSE [some |-> FALSE, rect |-> <<0, 0, 0, 0>>]

\* AnyShape::dist_sq, a fraction: the nearest point of a line, the difference
\* of the squares for a circle, and 0 or infinity by containment otherwise.
dist_sq(x, p) ==
    CASE x.shape = "Line" -> NearestDistSq(x, p)
      [] x.shape = "Circle" -> <<Abs(DistSq(x.center, p) - x.radius * x.radius), 1>>
      [] OTHER -> IF contains(x, p) THEN <<0, 1>> ELSE INFINITY

\* AnyShape::dist: the square root of dist_sq, kept as the number it is the
\* root of.
dist(x, p) == [sqrt_of |-> dist_sq(x, p)]

\* sq_limit of FatShape::pick under the identity transform: hypot2 of the
\* size of the bounding box of the circle of radius limit.
sq_limit(limit) == (2 * limit) * (2 * limit) + (2 * limit) * (2 * limit)

\* The subshapes pick keeps in its stroke branch.
Picks(shape, p, limit) ==
    {i \in 1..Len(shape.subshapes) : FracLt(dist_sq(shape.subshapes[i], p), <<sq_limit(limit), 1>>)}

\* DistIndex::cmp: by distance, then by index.
DistIndexLess(shape, p, i, j) ==
    \/ FracLt(dist_sq(shape.subshapes[i], p), dist_sq(shape.subshapes[j], p))
    \/ /\ ~FracLt(dist_sq(shape.subshapes[j], p), dist_sq(shape.subshapes[i], p))
       /\ i < j

\* The iteration of a BTreeSet<DistIndex>: its elements in ascending order.
RECURSIVE Ascending(_, _, _)
Ascending(shape, p, set) ==
    IF set = {} THEN << >>
    ELSE LET first == CHOOSE i \in set : \A j \in set \ {i} : DistIndexLess(shape, p, i, j)
         IN << first >> \o Ascending(shape, p, set \ {first})

\* `.enumerate().rev().filter_map(contains)`: the containing subshapes, last first.
RECURSIVE ContainingRev(_, _, _)
ContainingRev(shape, p, k) ==
    IF k = 0 THEN << >>
    ELSE (IF contains(shape.subshapes[k], p) THEN << k >> ELSE << >>)
         \o ContainingRev(shape, p, k - 1)

\* FatShape::pick(p, limit) under the identity transform: positions of
\* subshapes, counted from 1.
FatShape_pick(shape, p, limit) ==
    IF shape.paint.fill_paint # None THEN ContainingRev(shape, p, Len(shape.subshapes))
    ELSE IF shape.paint.stroke_paint # None THEN Ascending(shape, p, Picks(shape, p, limit))
    ELSE << >>

\* The subshapes, paints, points and limits the shape functions are applied to.
Subshapes ==
    { Line(<<0, 0>>, <<10, 0>>), Circle(<<0, 0>>, 1), Circle(<<5, 0>>, 5),
      Rect(0, 0, 4, 3), Rect(2, -2, 6, 1) }
ShapePaints ==
    { [stroke |-> DefaultStroke, stroke_paint |-> sp, fill_paint |-> fp] :
          sp \in {None, BLACK}, fp \in {None, RED} }
Shapes ==
    { [transform |-> IDENTITY, paint |-> paint, subshapes |-> subs] :
          paint \in ShapePaints, subs \in SeqsUpTo(Subshapes, MaxSubshapes) }
ShapePoints == {<<0, 0>>, <<3, 0>>, <<5, 2>>, <<3, 4>>, <<5, 9>>, <<-2, 0>>}
Limits == {1, 3}

\* The bag holds the one FatShape the functions are applied to.
InitShape ==
    /\ items \in { << shape >> : shape \in Shapes }
    /\ final_transforms = << IDENTITY >>
    /\ managed_transforms = << [parent |-> ROOT, local |-> IDENTITY] >>
    /\ palette = << >>
    /\ call = [op |-> "default"]
    /\ seq_final = final_transforms
    /\ NoLoad

BoundingBox ==
    /\ call' = [op |-> "bounding_box", shape |-> items[1], result |-> bounding_box(items[1])]
    /\ UNCHANGED <<bagVars, seq_final, loadVars>>

Dist ==
    /\ \E i \in 1..Len(items[1].subshapes) : \E p \in ShapePoints :
          call' = [op |-> "dist", x |-> items[1].subshapes[i], p |-> p,
                   dist_sq |-> dist_sq(items[1].subshapes[i], p),
                   dist |-> dist(items[1].subshapes[i], p)]
    /\ UNCHANGED <<bagVars, seq_final, loadVars>>

ShapePick ==
    /\ \E p \in ShapePoints : \E limit \in Limits :
          call' = [op |-> "shape_pick", shape |-> items[1], p |-> p, limit |-> limit,
                   result |-> FatShape_pick(items[1], p, limit)]
    /\ UNCHANGED <<bagVars, seq_final, loadVars>>

NextShape == BoundingBox \/ Dist \/ ShapePick

SpecShape == InitShape /\ [][NextShape]_vars

\* C22: bounding_box of a FatShape with at least one subshape is the union of
\* the boxes of all its subshapes, and it is None only without subshapes.
C22_BoundingBoxIsUnion ==
    call.op = "bounding_box" =>
        /\ call.result.some <=> Len(call.shape.subshapes) >= 1
        /\ call.result.some =>
              \A k \in 1..4 :
                 call.result.rect[k] =
                    IF k <= 2
                    THEN MinOf({any_bounding_box(call.shape.subshapes[i])[k] :
                                   i \in 1..Len(call.shape.subshapes)})
                    ELSE MaxOf({any_bounding_box(call.shape.subshapes[i])[k] :
                                   i \in 1..Len(call.shape.subshapes)})

\* C23: for a circle, dist_sq(p) is the square of the distance of p to the
\* circle's edge, (|p - center| - radius)^2, and dist(p) is its square root.
\* With d2 = |p - center|^2 and r = radius, x = (sqrt(d2) - r)^2 exactly when
\* d2 + r^2 - x is not negative and its square is 4 r^2 d2.
C23_CircleEdgeDistance ==
    (call.op = "dist" /\ call.x.shape = "Circle") =>
        LET d2 == DistSq(call.x.center, call.p)
            r == call.x.radius
            x == call.dist_sq[1]
        IN /\ call.dist_sq[2] = 1
           /\ d2 + r * r - x >= 0
           /\ (d2 + r * r - x) * (d2 + r * r - x) = 4 * r * r * d2
           /\ call.dist = [sqrt_of |-> call.dist_sq]

\* C30: with a stroke paint and no fill paint, pick returns a subshape only
\* if its distance to p is below the limit, nearest first; with a fill paint
\* it returns exactly the subshapes that contain p; with neither, nothing.
C30_PickWithinLimit ==
    call.op = "shape_pick" =>
        LET subs == call.shape.subshapes
            res == call.result
            d(i) == dist_sq(subs[i], call.p)
        IN IF call.shape.paint.fill_paint # None
           THEN {res[k] : k \in 1..Len(res)} = {i \in 1..Len(subs) : contains(subs[i], call.p)}
           ELSE IF call.shape.paint.stroke_paint # None
           THEN /\ \A k \in 1..Len(res) : FracLt(d(res[k]), <<call.limit * call.limit, 1>>)
                /\ \A k \in 1..Len(res) - 1 : ~FracLt(d(res[k + 1]), d(res[k]))
           ELSE res = << >>

----------------------------------------------------------------------------
(* RestrokePaint::adapt over line weights, pitches, view scales and limits.  *)

\* Largest line weight adapted.
MaxWeight == 5

\* The palettes adapted: one or two paints.
AdaptPalettes == SeqsUpTo(PaintInputs, 2) \ {<< >>}

InitAdapt ==
    /\ items = << >>
    /\ final_transforms = << IDENTITY >>
    /\ managed_transforms = << [parent |-> ROOT, local |-> IDENTITY] >>
    /\ palette \in AdaptPalettes
    /\ call = [op |-> "default"]
    /\ seq_final = final_transforms
    /\ NoLoad

\* r.adapt(graphics, pixel_pitch, view_scale, min_stroke, max_stroke) for the
\* paints of a drawing, as update_transform calls it for every view change;
\* the limits have min_stroke <= max_stroke, as f64::clamp requires.
Restroke ==
    \E handle \in Slots(palette), weight \in 0..MaxWeight, pitch \in {2},
       view_scale \in {<<1, 2>>, <<3, 1>>},
       min_stroke \in {<<1, 1>>}, max_stroke \in {<<2, 1>>, INFINITY} :
          adapt(weight, handle, pitch, view_scale, min_stroke, max_stroke)

SpecAdapt == InitAdapt /\ [][Restroke]_vars

\* The width a stroke is displayed with at a view scale.
Displayed(stroke, view_scale) == Frac(stroke[1] * view_scale[1], stroke[2] * view_scale[2])

\* C24: adapt sets the stroke of the paint at its handle so that the width
\* times the view scale is weight / pitch clamped to [min_stroke, max_stroke],
\* which lies within these limits for every weight, 0 included; the brushes of
\* that paint and every other paint are left as they were.
C24_AdaptClampsDisplayedWidth ==
    [][call'.op = "adapt" =>
         LET h == call'.handle + 1
             shown == Displayed(palette'[h].stroke, call'.view_scale)
         IN /\ shown = Clamp(FracDiv(Frac(call'.weight, 1), Frac(call'.pitch, 1)),
                             call'.min_stroke, call'.max_stroke)
            /\ FracLe(call'.min_stroke, shown) /\ FracLe(shown, call'.max_stroke)
            /\ palette' = [palette EXCEPT ![h].stroke = palette'[h].stroke]
            /\ UNCHANGED <<items, final_transforms, managed_transforms>>]_vars

\* A line of weight 0 adapted to the minimal width, next to another paint.
C24_Witness ==
    /\ call.op = "adapt" /\ call.weight = 0
    /\ Len(palette) = 2
    /\ Displayed(palette[call.handle + 1].stroke, call.view_scale) = call.min_stroke
    /\ palette[call.handle + 1].stroke # call.min_stroke

----------------------------------------------------------------------------
(* Polylines with bulges.                                                    *)

\* Most vertices of a polyline.
MaxVertices == 3

\* Vertices: coincident, near-coincident and distant points, with no bulge, a
\* negligible one, one just above, and the bulge of a half circle.
PolyVertices ==
    { [x |-> p[1], y |-> p[2], bulge |-> bulge] :
          p \in {<<0, 0>>, <<3, 4>>, <<600, 800>>}, bulge \in {0, 2, -3, 10000000} }

PolylineEntities ==
    { [DefaultEntity EXCEPT !.kind = "LWPOLYLINE", !.vertices = vertices,
                            !.is_closed = closed] :
          vertices \in SeqsUpTo(PolyVertices, MaxVertices), closed \in BOOLEAN }

InitPolyline ==
    /\ InitEntities([1..1 -> PolylineEntities])
    /\ overflow_checks = FALSE

SpecPolyline == InitPolyline /\ [][NextLoad]_vars

\* The polyline of the drawing and the path loaded from it.
Polyline == drawing.entities[1]
PolyPath == items[1].path

\* The pair of vertices k and k + 1 asks for a straight segment: no bulge, a
\* negligible included angle, or near-coincident points.
Straight(k) ==
    \/ Polyline.vertices[k].bulge = 0
    \/ ThetaNegligible(Polyline.vertices[k].bulge)
    \/ ChordSq(<<Polyline.vertices[k].x, Polyline.vertices[k].y>>,
               <<Polyline.vertices[k + 1].x, Polyline.vertices[k + 1].y>>) < NearZeroSq

\* C25: every consecutive vertex pair with bulge 0, near-coincident points or
\* a negligible included angle appends exactly one straight segment ending at
\* the second vertex and no curve, every pair appends one piece, and an arc is
\* only computed over a chord that is not near zero.
C25_BulgeSegments ==
    Len(items) = 1 =>
        /\ Len(PolyPath) = Len(Polyline.vertices) + (IF Polyline.is_closed THEN 1 ELSE 0)
        /\ \A k \in 1..(Len(Polyline.vertices) - 1) :
              LET end == <<Polyline.vertices[k + 1].x, -Polyline.vertices[k + 1].y>>
              IN /\ PolyPath[k + 1].p = end
                 /\ Straight(k) => PolyPath[k + 1] = LineTo(end)
                 /\ PolyPath[k + 1].op = "A" => PolyPath[k + 1].u[1] >= NearZeroSq

\* A loaded polyline with a straight piece for near-coincident points under a
\* large bulge, and an arc.
C25_Witness ==
    /\ Len(items) = 1
    /\ \E k \in 1..(Len(Polyline.vertices) - 1) :
          /\ Polyline.vertices[k].bulge = 10000000
          /\ PolyPath[k + 1].op = "L"
          /\ PolyPath[k + 1].p # PolyPath[k].p
    /\ \E k \in 1..(Len(Polyline.vertices) - 1) : PolyPath[k + 1].op = "A"

----------------------------------------------------------------------------
(* Layers and visibility: a drawing of one block A whose entities lie on    *)
(* layers that are on or off and are visible or not, a top-level insert of  *)
(* A, and the entity of A placed at the top level as well.                  *)

\* Line weights of a layer: unset (negative), zero and positive.
LayerWeights == {-3, 0, 50}

LayerOf(weight, on) == [color |-> 1, line_weight |-> weight, is_layer_on |-> on]

\* The entity of block A: a line from (1, 2) to (3, 2).
Member(layer, visible, lw) ==
    [DefaultEntity EXCEPT !.p1 = <<1, 2>>, !.p2 = <<3, 2>>, !.layer = layer,
                          !.is_visible = visible, !.lineweight_enum_value = lw]

Members ==
    { Member(LayerOf(w, on), visible, lw) :
        w \in LayerWeights, on \in BOOLEAN, visible \in BOOLEAN, lw \in {-2, 50} }

\* A second line of block A, always shown.
Companion == [DefaultEntity EXCEPT !.p1 = <<5, 5>>, !.p2 = <<6, 6>>, !.handle = 4]

\* The insert of A at the top level and a text.
InsertOn(layer, visible) ==
    [PlainInsert("A") EXCEPT !.handle = 2, !.layer = layer, !.is_visible = visible,
                             !.lineweight_enum_value = 25, !.color = 1]
Label == [DefaultEntity EXCEPT !.kind = "TEXT", !.handle = 3, !.location = <<7, 7>>]

TopLevelInserts == { InsertOn(LayerRed50, TRUE), InsertOn(LayerRed50, FALSE),
                     InsertOn(LayerOff, TRUE) }

\* The drawings of member e and insert ins.
DrawingsOf(e, ins) ==
    { [entities |-> entities, blocks |-> << [name |-> "A", entities |-> body] >>] :
        entities \in { << ins >>, << e, ins >>, << ins, e >>, << Label, ins, ins >> },
        body \in { << e >>, << e, Companion >> } }

LayerDrawings == UNION { DrawingsOf(e, ins) : e \in Members, ins \in TopLevelInserts }

InitLayers == InitInsertOf(LayerDrawings)

SpecLayers == InitLayers /\ [][NextFile]_vars

\* C26: an entity with by-layer line weight resolves to the same concrete
\* weight and the same paint inside a block that is inserted once as it does
\* at the top level on the same layer, whatever the layer's weight: in a
\* loaded drawing of the entity followed by an insert of a block that holds
\* only that entity, the block's chunk and the entity resolve alike.
C26_ByLayerSameInBlock ==
    (/\ load_pc = "done"
     /\ Len(drawing.entities) = 2
     /\ drawing.blocks[1].entities = << drawing.entities[1] >>
     /\ drawing.entities[1].lineweight_enum_value = -2
     /\ drawing.entities[2].kind = "INSERT"
     /\ Len(resolved) = 3)
        => /\ resolved[3].weight = resolved[1].weight
           /\ resolved[3].handle = resolved[1].handle

\* An entity that the top-level filter of the entity loop skips.
Hidden(e) == ~e.is_visible \/ ~e.layer.is_layer_on

\* The entities of a drawing: the top-level ones and those of its blocks.
EntitiesOf(d) ==
    {d.entities[k] : k \in 1..Len(d.entities)}
        \cup UNION { {d.blocks[b].entities[k] : k \in 1..Len(d.blocks[b].entities)} :
                        b \in 1..Len(d.blocks) }

\* enabled_layers of the loaded drawing, over the layers of the layer table.
LayerTable(d) == {e.layer : e \in EntitiesOf(d)}
enabled_layers(d) == {l \in LayerTable(d) : l.is_layer_on}

\* The path of the item holds the path of entity e.
Shows(item, e) ==
    LET s == path_from_entity(e).path
    IN \E k \in 1..(Len(item.path) - Len(s) + 1) :
          SubSeq(item.path, k, k + Len(s) - 1) = s

\* C27: in a loaded drawing no item of the render layer holds the geometry
\* of an entity that is invisible or on a layer that is off, be the entity
\* at the top level or in an inserted block; and the enabled layers are the
\* layers that are on.
C27_HiddenNotRendered ==
    load_pc = "done" =>
        /\ \A e \in EntitiesOf(drawing) :
              (Hidden(e) /\ e.kind = "LINE") =>
                  \A k \in 1..Len(render_layer) : ~Shows(items[render_layer[k] + 1], e)
        /\ \A l \in LayerTable(drawing) : l \in enabled_layers(drawing) <=> l.is_layer_on

\* C28: in a loaded drawing the render layer lists the item handles 0..n-1
\* of the bag in push order, item_entity_map has one entry for each of them,
\* every handle names an item of the bag, and the entities with a layer entry
\* are the entities item_entity_map names.
C28_HandlesAndMapsAgree ==
    load_pc = "done" =>
        /\ render_layer = [k \in 1..Len(items) |-> k - 1]
        /\ DOMAIN item_entity_map = {render_layer[k] + 1 : k \in 1..Len(render_layer)}
        /\ \A k \in 1..Len(render_layer) : render_layer[k] < Len(items)
        /\ DOMAIN entity_layer_map = {item_entity_map[k] : k \in DOMAIN item_entity_map}

\* A loaded drawing of four or more items, two of them of one entity.
C28_Witness ==
    /\ load_pc = "done"
    /\ Len(items) >= 4
    /\ Cardinality(DOMAIN entity_layer_map) = 2
    /\ \E i, j \in DOMAIN item_entity_map : i # j /\ item_entity_map[i] = item_entity_map[j]

====
